---- MODULE Spec2Model ----
(***************************************************************************)
(* Class-definition sync pipeline of pathfinder                            *)
(* (crates/pathfinder/src/sync/class_definitions.rs).                      *)
(*                                                                         *)
(* The declaration matcher exists in two forms: the stream function        *)
(* verify_declared_at (with its ClassDechunker) and the ProcessStage       *)
(* VerifyDeclaredAt.  Both are modelled as state machines that step at     *)
(* the await / call boundaries of the code.  Relational properties (two    *)
(* chunkings of the same classes, two expectation streams that differ by   *)
(* empty blocks) are checked on two runs of the same code, run 1 and       *)
(* run 2, executed one after the other on related inputs.                  *)
(*                                                                         *)
(* The other stages are modelled each under a specification of its own:    *)
(* persist and Store::map on one database, the hashing and compiling       *)
(* functions with the closures of concurrent calls interleaved,            *)
(* verify_layout and next_missing as functions of their arguments,         *)
(* VerifyClassHashes::map with its declarations stream, the two producers  *)
(* of expected declarations, and the spawned producer feeding              *)
(* VerifyDeclaredAt::map through its channel.  The status serializers of   *)
(* the rpc crate (crates/rpc/src/dto/receipt.rs) are modelled as functions *)
(* from the enum variants to the characters of the serialized string.      *)
(* The v0.8 router (crates/rpc/src/v08.rs) is the chain of register calls  *)
(* in source order, followed by the requests the built router serves.      *)
(***************************************************************************)
EXTENDS Integers, Sequences, FiniteSets, TLC

\* ------------------------------------------------------------------ bounds

\* Longest expectation stream E.
MaxE == 2
\* Largest number of items (classes and error items) of the class stream H.
MaxClasses == 2
\* Largest batch given to persist.
MaxBatch == 2
\* The highest block number of the chain that next_missing is asked about.
MaxBlock == 3

Blocks == {1, 2}
Hashes == {"A", "B"}
NoHash == "-"
Runs == {1, 2}

SeqsUpTo(S, n) == UNION {[1..k -> S] : k \in 0..n}

\* ------------------------------------------------------------ input values

\* An item of `expected_declarations`: anyhow::Result<(BlockNumber, HashSet<ClassHash>)>.
ExpectedItems ==
  {[tag |-> "Ok", block_number |-> b, classes |-> s] : b \in Blocks, s \in SUBSET Hashes}
    \cup {[tag |-> "Err", block_number |-> 0, classes |-> {}]}

\* The classes / error items a peer stream can carry, before peers are attached
\* and before it is cut into chunks.
RawItems ==
  {[tag |-> "Ok", block_number |-> b, hash |-> h] : b \in Blocks, h \in Hashes}
    \cup {[tag |-> "Err", block_number |-> 0, hash |-> NoHash]}

\* PeerData<Class>: the i-th class of the peer stream carries peer tag i, so that
\* every class has a peer tag of its own.
PeerDataClass(raw, i) ==
  [peer |-> i, block_number |-> raw.block_number, hash |-> raw.hash]

\* An item of `classes`: Result<Vec<PeerData<Class>>, SyncError>.
OkChunk(chunk) == [tag |-> "Ok", chunk |-> chunk]
ErrChunk == [tag |-> "Err", chunk |-> <<>>]

\* The peer stream that carries the raw items `raw` from position i on, cut after
\* every position j with cut[j]; an error item is always an item of its own.
RECURSIVE ChunksFrom(_, _, _, _)
ChunksFrom(raw, cut, i, acc) ==
  IF i > Len(raw) THEN (IF acc = <<>> THEN <<>> ELSE <<OkChunk(acc)>>)
  ELSE IF raw[i].tag = "Err"
    THEN (IF acc = <<>> THEN <<>> ELSE <<OkChunk(acc)>>) \o <<ErrChunk>>
           \o ChunksFrom(raw, cut, i + 1, <<>>)
    ELSE LET acc2 == Append(acc, PeerDataClass(raw[i], i))
         IN IF cut[i] THEN <<OkChunk(acc2)>> \o ChunksFrom(raw, cut, i + 1, <<>>)
            ELSE ChunksFrom(raw, cut, i + 1, acc2)

Chunked(raw, cut) == ChunksFrom(raw, cut, 1, <<>>)

\* The items of a peer stream one by one: its classes and its error items.
RECURSIVE Flatten(_)
Flatten(h) ==
  IF h = <<>> THEN <<>>
  ELSE (IF Head(h).tag = "Err" THEN <<ErrChunk>>
        ELSE [i \in 1..Len(Head(h).chunk) |-> OkChunk(<<Head(h).chunk[i]>>)])
       \o Flatten(Tail(h))

\* An expectation stream without its items that declare nothing.
RECURSIVE SkipEmpty(_)
SkipEmpty(e) ==
  IF e = <<>> THEN <<>>
  ELSE IF Head(e).tag = "Ok" /\ Head(e).classes = {}
    THEN SkipEmpty(Tail(e))
    ELSE <<Head(e)>> \o SkipEmpty(Tail(e))

\* ------------------------------------------------------------------- state

VARIABLES
  inE,                    \* run -> the expectation stream the run was given
  inH,                    \* run -> the chunked class stream the run was given
  expected_declarations,  \* run -> items of E not yet read
  classes,                \* run -> items of H not yet read
  dechunker,              \* run -> ClassDechunker.0, the buffered classes
  declared_at,            \* run -> block of the current expected entry
  declared,               \* run -> remaining set of the current expected entry
  res,                    \* run -> the item computed and not yet sent
  out,                    \* run -> items sent on tx, in order
  pc,                     \* run -> position of the future in verify_declared_at
  rx                      \* run -> "open" | "dropped": the receiving end of tx

matcherVars == <<inE, inH, expected_declarations, classes, dechunker, declared_at,
                 declared, res, out, pc, rx>>

\* VerifyDeclaredAt (the ProcessStage form), one instance per run, fed the same
\* expectations and the same classes as the run of verify_declared_at.
VARIABLES
  expectation_source,     \* run -> items still to come on the Receiver, then closed
  current,                \* run -> VerifyDeclaredAt.current
  stage_input,            \* run -> classes the pipeline has not yet passed to map
  results                 \* run -> what map returned, call by call

stageVars == <<expectation_source, current, stage_input, results>>

\* persist: one call, on the batch `persist_classes` and the database `inDatabase`.
VARIABLES
  inDatabase,             \* the database when persist was called
  inClasses,              \* the batch persist was called with
  database,               \* the committed content of the database
  transaction,            \* the open transaction and its view of the database
  persist_classes,        \* elements of the batch the loop has not yet reached
  tail,                   \* the local `tail`
  persist_pc,             \* "idle" | "call" | "loop" | "commit" | "returned"
  persist_result          \* what persist returned

persistVars == <<inDatabase, inClasses, database, transaction, persist_classes, tail,
                 persist_pc, persist_result>>

\* Store (the ProcessStage form of persist): one class per call of map.
VARIABLES
  store_input,            \* the class the last call of Store::map was given
  store_result            \* what the last call of Store::map returned

storeVars == <<store_input, store_result>>

\* The rayon pool running the batches of compute_hash or of
\* compile_sierra_to_casm_or_fetch; each call has its own oneshot channel.
VARIABLES
  pool_fn,                \* the function the calls are calls of
  peer_data,              \* call -> the batch the call was given
  slots,                  \* call -> position -> what the worker's closure returned
  pool_result             \* call -> what the call returned

poolVars == <<pool_fn, peer_data, slots, pool_result>>

\* One call of a function that keeps no state between calls.
VARIABLES
  call,                   \* the function called and its arguments
  ret                     \* what it returned

callVars == <<call, ret>>

\* VerifyClassHashes and its stream of DeclaredClasses.
VARIABLES
  declarations,           \* items the stream has not yet yielded
  hashes_input,           \* the batch the last call of map was given
  hashes_result,          \* what the last call of map returned
  missing                 \* the local `missing` of the last call

hashesVars == <<declarations, hashes_input, hashes_result, missing>>

\* expected_declarations_stream and ExpectedDeclarationsSource::spawn, one task
\* of each form over the same storage and the same range.
VARIABLES
  headers,                \* storage: block number -> classes declared, or no header
  inStart,                \* the argument `start`
  stop,                   \* the argument `stop`
  start,                  \* form -> the loop variable `start`
  channel,                \* form -> items sent on tx, in order
  task                    \* form -> "running" | "returned" | "failed"

sourceVars == <<headers, inStart, stop, start, channel, task>>

\* The router of the rpc crate for version 0.8.
VARIABLES
  methods,                \* the builder: the routes registered so far, in order
  served                  \* the router: the last two requests served, newest last

routerVars == <<methods, served>>

extraVars == <<storeVars, poolVars, callVars, hashesVars, sourceVars, routerVars>>

\* None of these components is used.
StoreIdle == store_input = "none" /\ store_result = "none"
PoolIdle == pool_fn = "none" /\ peer_data = <<>> /\ slots = <<>> /\ pool_result = <<>>
CallIdle == call = "none" /\ ret = "none"
RouterIdle == methods = <<>> /\ served = <<>>
HashesIdle ==
  declarations = <<>> /\ hashes_input = <<>> /\ hashes_result = "none" /\ missing = <<>>
SourceIdle ==
  /\ headers = <<>> /\ inStart = 0 /\ stop = 0
  /\ start = <<>> /\ channel = <<>> /\ task = <<>>


\* ---------------------------------------------------------------- results

OkItem(class) ==
  [tag |-> "Ok", err |-> "", peer |-> class.peer,
   block_number |-> class.block_number, hash |-> class.hash]
UnexpectedClass(peer) ==
  [tag |-> "Err", err |-> "UnexpectedClass", peer |-> peer, block_number |-> 0,
   hash |-> NoHash]
\* An error of the peer stream, passed on as it is.
UpstreamError ==
  [tag |-> "Err", err |-> "Upstream", peer |-> 0, block_number |-> 0, hash |-> NoHash]
NoItem ==
  [tag |-> "None", err |-> "", peer |-> 0, block_number |-> 0, hash |-> NoHash]


\* ------------------------------------------------- verify_declared_at (stream)

\* Mutant of DechunkerNext: the classes of a chunk after its first are not buffered.
DechunkerNext_NoBuffer(buf, cls) ==
  IF cls = <<>>
  THEN [item |-> [tag |-> "None"], buf |-> <<>>, cls |-> cls]
  ELSE IF Head(cls).tag = "Err"
    THEN [item |-> [tag |-> "Err"], buf |-> <<>>, cls |-> Tail(cls)]
    ELSE [item |-> [tag |-> "Ok", class |-> Head(Head(cls).chunk)],
          buf |-> <<>>, cls |-> Tail(cls)]

\* Mutant of DechunkerNext: the buffer is popped at its back.
DechunkerNext_PopBack(buf, cls) ==
  LET last(q) == q[Len(q)]
      front(q) == SubSeq(q, 1, Len(q) - 1)
  IN IF buf = <<>>
     THEN IF cls = <<>>
          THEN [item |-> [tag |-> "None"], buf |-> buf, cls |-> cls]
          ELSE IF Head(cls).tag = "Err"
            THEN [item |-> [tag |-> "Err"], buf |-> buf, cls |-> Tail(cls)]
            ELSE [item |-> [tag |-> "Ok", class |-> last(Head(cls).chunk)],
                  buf |-> front(Head(cls).chunk), cls |-> Tail(cls)]
     ELSE [item |-> [tag |-> "Ok", class |-> last(buf)], buf |-> front(buf), cls |-> cls]

\* ClassDechunker::next: the next class of the peer stream, the buffer and the
\* unread chunks it leaves.  "None": the stream has ended; "Panic": the chunk read
\* was empty (`expect("Chunk not to be empty")`).
DechunkerNext(buf, cls) ==
  IF buf = <<>>
  THEN IF cls = <<>>
       THEN [item |-> [tag |-> "None"], buf |-> buf, cls |-> cls]
       ELSE IF Head(cls).tag = "Err"
         THEN [item |-> [tag |-> "Err"], buf |-> buf, cls |-> Tail(cls)]
         ELSE LET extended == buf \o Head(cls).chunk
              IN IF extended = <<>>
                 THEN [item |-> [tag |-> "Panic"], buf |-> extended, cls |-> Tail(cls)]
                 ELSE [item |-> [tag |-> "Ok", class |-> Head(extended)],
                       buf |-> Tail(extended), cls |-> Tail(cls)]
  ELSE [item |-> [tag |-> "Ok", class |-> Head(buf)], buf |-> Tail(buf), cls |-> cls]

\* Mutant of CheckDeclared: the block number of the class is not compared.
CheckDeclared_AnyBlock(at, decl, class) ==
  IF class.hash \in decl
  THEN [res |-> OkItem(class), declared |-> decl \ {class.hash}]
  ELSE [res |-> UnexpectedClass(class.peer), declared |-> decl]

\* Mutant of CheckDeclared: a hash that is not in the remaining set is accepted.
CheckDeclared_AnyHash(at, decl, class) ==
  IF at # class.block_number
  THEN [res |-> UnexpectedClass(class.peer), declared |-> decl]
  ELSE [res |-> OkItem(class), declared |-> decl \ {class.hash}]

\* Mutant of CheckDeclared: a matched hash stays in the remaining set.
CheckDeclared_NoRemove(at, decl, class) ==
  IF at # class.block_number
  THEN [res |-> UnexpectedClass(class.peer), declared |-> decl]
  ELSE IF class.hash \in decl
    THEN [res |-> OkItem(class), declared |-> decl]
    ELSE [res |-> UnexpectedClass(class.peer), declared |-> decl]

\* The closure given to `maybe_class.and_then`: the item to send for a class pulled
\* from the dechunker, and the remaining set it leaves.
CheckDeclared(at, decl, class) ==
  IF at # class.block_number
  THEN [res |-> UnexpectedClass(class.peer), declared |-> decl]
  ELSE IF class.hash \in decl
    THEN [res |-> OkItem(class), declared |-> decl \ {class.hash}]
    ELSE [res |-> UnexpectedClass(class.peer), declared |-> decl]

Returned(r) == pc[r] \in {"done", "panicked"}

\* Run 2 starts when run 1 has returned.
MatcherTurn(r) == r = 1 \/ Returned(1)

\* Mutant of NextExpected: the item of E is looked at and left in the stream.
NextExpected_Peek(r) ==
  /\ MatcherTurn(r)
  /\ pc[r] = "next_expected"
  /\ IF expected_declarations[r] = <<>>
     THEN /\ pc' = [pc EXCEPT ![r] = "done"]
          /\ UNCHANGED <<declared_at, declared>>
     ELSE LET expected == Head(expected_declarations[r])
          IN IF expected.tag = "Err"
             THEN /\ pc' = [pc EXCEPT ![r] = "done"]
                  /\ UNCHANGED <<declared_at, declared>>
             ELSE /\ declared_at' = [declared_at EXCEPT ![r] = expected.block_number]
                  /\ declared' = [declared EXCEPT ![r] = expected.classes]
                  /\ pc' = [pc EXCEPT ![r] = "loop"]
  /\ UNCHANGED <<inE, inH, expected_declarations, classes, dechunker, res, out, rx,
                 stageVars, persistVars, extraVars>>

\* `while let Some(expected) = expected_declarations.next().await`.  On an error
\* item the future of `tx.send(Err(..))` is created and dropped without being
\* awaited (`_ = tx.send(..)`), so nothing is sent, and the function returns.
NextExpected(r) ==
  /\ MatcherTurn(r)
  /\ pc[r] = "next_expected"
  /\ IF expected_declarations[r] = <<>>
     THEN /\ pc' = [pc EXCEPT ![r] = "done"]
          /\ UNCHANGED <<expected_declarations, declared_at, declared>>
     ELSE LET expected == Head(expected_declarations[r])
          IN /\ expected_declarations' =
                  [expected_declarations EXCEPT ![r] = Tail(expected_declarations[r])]
             /\ IF expected.tag = "Err"
                THEN /\ pc' = [pc EXCEPT ![r] = "done"]
                     /\ UNCHANGED <<declared_at, declared>>
                ELSE /\ declared_at' = [declared_at EXCEPT ![r] = expected.block_number]
                     /\ declared' = [declared EXCEPT ![r] = expected.classes]
                     /\ pc' = [pc EXCEPT ![r] = "loop"]
  /\ UNCHANGED <<inE, inH, classes, dechunker, res, out, rx, stageVars, persistVars, extraVars>>

\* Mutant of BreakOnEmpty: an empty remaining set ends the function.
BreakOnEmpty_Return(r) ==
  /\ MatcherTurn(r)
  /\ pc[r] = "loop"
  /\ declared[r] = {}
  /\ pc' = [pc EXCEPT ![r] = "done"]
  /\ UNCHANGED <<inE, inH, expected_declarations, classes, dechunker, declared_at,
                 declared, res, out, rx, stageVars, persistVars, extraVars>>

\* `if declared.is_empty() { break; }`
BreakOnEmpty(r) ==
  /\ MatcherTurn(r)
  /\ pc[r] = "loop"
  /\ declared[r] = {}
  /\ pc' = [pc EXCEPT ![r] = "next_expected"]
  /\ UNCHANGED <<inE, inH, expected_declarations, classes, dechunker, declared_at,
                 declared, res, out, rx, stageVars, persistVars, extraVars>>

\* Mutant of PullClass: the end of the peer stream with expected classes
\* outstanding is reported as an error.
PullClass_ErrAtEnd(r) ==
  /\ MatcherTurn(r)
  /\ pc[r] = "loop"
  /\ declared[r] # {}
  /\ LET n == DechunkerNext(dechunker[r], classes[r])
     IN /\ dechunker' = [dechunker EXCEPT ![r] = n.buf]
        /\ classes' = [classes EXCEPT ![r] = n.cls]
        /\ IF n.item.tag = "Ok"
           THEN LET c == CheckDeclared(declared_at[r], declared[r], n.item.class)
                IN /\ res' = [res EXCEPT ![r] = c.res]
                   /\ declared' = [declared EXCEPT ![r] = c.declared]
           ELSE /\ res' = [res EXCEPT ![r] = UpstreamError]
                /\ UNCHANGED declared
        /\ pc' = [pc EXCEPT ![r] = "send"]
  /\ UNCHANGED <<inE, inH, expected_declarations, declared_at, out, rx, stageVars, persistVars, extraVars>>

\* `dechunker.next(&mut classes).await` and the computation of `res`.
PullClass(r) ==
  /\ MatcherTurn(r)
  /\ pc[r] = "loop"
  /\ declared[r] # {}
  /\ LET n == DechunkerNext(dechunker[r], classes[r])
     IN /\ dechunker' = [dechunker EXCEPT ![r] = n.buf]
        /\ classes' = [classes EXCEPT ![r] = n.cls]
        /\ CASE n.item.tag = "None" ->
                  /\ pc' = [pc EXCEPT ![r] = "done"]
                  /\ UNCHANGED <<declared, res>>
             [] n.item.tag = "Panic" ->
                  /\ pc' = [pc EXCEPT ![r] = "panicked"]
                  /\ UNCHANGED <<declared, res>>
             [] n.item.tag = "Err" ->
                  /\ res' = [res EXCEPT ![r] = UpstreamError]
                  /\ pc' = [pc EXCEPT ![r] = "send"]
                  /\ UNCHANGED declared
             [] n.item.tag = "Ok" ->
                  LET c == CheckDeclared(declared_at[r], declared[r], n.item.class)
                  IN /\ res' = [res EXCEPT ![r] = c.res]
                     /\ declared' = [declared EXCEPT ![r] = c.declared]
                     /\ pc' = [pc EXCEPT ![r] = "send"]
  /\ UNCHANGED <<inE, inH, expected_declarations, declared_at, out, rx, stageVars, persistVars, extraVars>>

\* Mutant of Send: the loop goes on after an error was sent.
Send_NoBail(r) ==
  /\ MatcherTurn(r)
  /\ pc[r] = "send"
  /\ out' = [out EXCEPT ![r] = Append(out[r], res[r])]
  /\ pc' = [pc EXCEPT ![r] = "loop"]
  /\ res' = [res EXCEPT ![r] = NoItem]
  /\ UNCHANGED <<inE, inH, expected_declarations, classes, dechunker, declared_at,
                 declared, rx, stageVars, persistVars, extraVars>>

\* `tx.send(res).await.expect("Receiver not to be dropped")`, then `if bail { return; }`.
Send(r) ==
  /\ MatcherTurn(r)
  /\ pc[r] = "send"
  /\ IF rx[r] = "dropped"
     THEN /\ pc' = [pc EXCEPT ![r] = "panicked"]
          /\ UNCHANGED out
     ELSE /\ out' = [out EXCEPT ![r] = Append(out[r], res[r])]
          /\ pc' = [pc EXCEPT ![r] = IF res[r].tag = "Err" THEN "done" ELSE "loop"]
  /\ res' = [res EXCEPT ![r] = NoItem]
  /\ UNCHANGED <<inE, inH, expected_declarations, classes, dechunker, declared_at,
                 declared, rx, stageVars, persistVars, extraVars>>

\* The consumer drops the stream returned by verify_declared_at.
DropReceiver(r) ==
  /\ MatcherTurn(r)
  /\ rx[r] = "open"
  /\ ~Returned(r)
  /\ rx' = [rx EXCEPT ![r] = "dropped"]
  /\ UNCHANGED <<inE, inH, expected_declarations, classes, dechunker, declared_at,
                 declared, res, out, pc, stageVars, persistVars, extraVars>>

\* ------------------------------------------------------------------ inputs

NoCut(raw) == [i \in 1..Len(raw) |-> FALSE]

\* The ways of cutting `raw`, each chunking once: a cut after the last item, after
\* an error item or before one changes nothing.
Cuts(raw) ==
  {cut \in [1..Len(raw) -> BOOLEAN] :
     \A i \in 1..Len(raw) :
       (i = Len(raw) \/ raw[i].tag = "Err" \/ raw[i + 1].tag = "Err") => ~cut[i]}

\* Run 1 is given any expectation stream and any chunked class stream; run 2 is
\* given nothing.
OneRunInputs ==
  \E e \in SeqsUpTo(ExpectedItems, MaxE), raw \in SeqsUpTo(RawItems, MaxClasses) :
    \E cut \in Cuts(raw) :
      /\ inE = [r \in Runs |-> IF r = 1 THEN e ELSE <<>>]
      /\ inH = [r \in Runs |-> IF r = 1 THEN Chunked(raw, cut) ELSE <<>>]

\* Both runs are given the same expectation stream and the same classes: run 1 in
\* the largest possible chunks, run 2 cut in any other way.
ChunkingInputs ==
  \E e \in SeqsUpTo(ExpectedItems, MaxE), raw \in SeqsUpTo(RawItems, MaxClasses) :
    \E cut \in [1..Len(raw) -> BOOLEAN] :
      /\ Chunked(raw, cut) # Chunked(raw, NoCut(raw))
      /\ inE = [r \in Runs |-> e]
      /\ inH = [r \in Runs |-> IF r = 1 THEN Chunked(raw, NoCut(raw))
                                ELSE Chunked(raw, cut)]

\* Both runs are given the same chunked class stream: run 2 with an expectation
\* stream that has items declaring nothing, run 1 with the same stream without them.
EmptyBlockInputs ==
  \E e \in SeqsUpTo(ExpectedItems, MaxE), raw \in SeqsUpTo(RawItems, MaxClasses) :
    \E cut \in [1..Len(raw) -> BOOLEAN] :
      /\ SkipEmpty(e) # e
      /\ inE = [r \in Runs |-> IF r = 1 THEN SkipEmpty(e) ELSE e]
      /\ inH = [r \in Runs |-> Chunked(raw, cut)]

NoInputs ==
  /\ inE = [r \in Runs |-> <<>>]
  /\ inH = [r \in Runs |-> <<>>]

MatcherInit ==
  /\ expected_declarations = inE
  /\ classes = inH
  /\ dechunker = [r \in Runs |-> <<>>]
  /\ declared_at = [r \in Runs |-> 0]
  /\ declared = [r \in Runs |-> {}]
  /\ res = [r \in Runs |-> NoItem]
  /\ out = [r \in Runs |-> <<>>]
  /\ pc = [r \in Runs |-> "next_expected"]
  /\ rx = [r \in Runs |-> "open"]

\* --------------------------------------------- VerifyDeclaredAt::map (stage)

ExpectedDeclarations(block_number, cls) ==
  [block_number |-> block_number, classes |-> cls]

\* The `loop` around `expectation_source.blocking_recv()`: skips the items that
\* declare nothing; a closed and empty channel is an error.
RECURSIVE RecvDeclared(_)
RecvDeclared(source) ==
  IF source = <<>>
  THEN [ok |-> FALSE, expected |-> ExpectedDeclarations(0, {}), source |-> source]
  ELSE IF Head(source).classes = {}
    THEN RecvDeclared(Tail(source))
    ELSE [ok |-> TRUE, expected |-> Head(source), source |-> Tail(source)]

StageOk(input) ==
  [tag |-> "Ok", err |-> "", block_number |-> input.block_number, hash |-> input.hash]
StageErr(err) ==
  [tag |-> "Err", err |-> err, block_number |-> 0, hash |-> NoHash]

\* Mutant of MapDeclaredAt: the block number of the class is not compared.
MapDeclaredAt_AnyBlock(cur, source, input) ==
  LET recv == IF cur.classes = {}
              THEN RecvDeclared(source)
              ELSE [ok |-> TRUE, expected |-> cur, source |-> source]
  IN IF ~recv.ok
     THEN [result |-> StageErr("Receiving expected declarations"),
           current |-> cur, source |-> recv.source]
     ELSE IF input.hash \in recv.expected.classes
       THEN [result |-> StageOk(input),
             current |-> [recv.expected EXCEPT !.classes = @ \ {input.hash}],
             source |-> recv.source]
       ELSE [result |-> StageErr("UnexpectedClass"),
             current |-> recv.expected, source |-> recv.source]

\* VerifyDeclaredAt::map on `input`, with `cur` = self.current and `source` the
\* items to come on self.expectation_source: the value returned and the state left.
MapDeclaredAt(cur, source, input) ==
  LET recv == IF cur.classes = {}
              THEN RecvDeclared(source)
              ELSE [ok |-> TRUE, expected |-> cur, source |-> source]
  IN IF ~recv.ok
     THEN [result |-> StageErr("Receiving expected declarations"),
           current |-> cur, source |-> recv.source]
     ELSE IF recv.expected.block_number # input.block_number
       THEN [result |-> StageErr("UnexpectedClass"),
             current |-> recv.expected, source |-> recv.source]
       ELSE IF input.hash \in recv.expected.classes
         THEN [result |-> StageOk(input),
               current |-> [recv.expected EXCEPT !.classes = @ \ {input.hash}],
               source |-> recv.source]
         ELSE [result |-> StageErr("UnexpectedClass"),
               current |-> recv.expected, source |-> recv.source]

\* The pipeline stops at the first error a stage returns.
StageEnded(r) ==
  \/ stage_input[r] = <<>>
  \/ results[r] # <<>> /\ results[r][Len(results[r])].tag = "Err"

StageTurn(r) ==
  /\ \A q \in Runs : Returned(q)
  /\ r = 1 \/ StageEnded(1)

VerifyDeclaredAtMap(r) ==
  /\ StageTurn(r)
  /\ ~StageEnded(r)
  /\ LET m == MapDeclaredAt(current[r], expectation_source[r], Head(stage_input[r]))
     IN /\ results' = [results EXCEPT ![r] = Append(results[r], m.result)]
        /\ current' = [current EXCEPT ![r] = m.current]
        /\ expectation_source' = [expectation_source EXCEPT ![r] = m.source]
  /\ stage_input' = [stage_input EXCEPT ![r] = Tail(stage_input[r])]
  /\ UNCHANGED <<matcherVars, persistVars, extraVars>>

\* The channel carries the items of E up to its first error, where the producer
\* stops and the channel closes.
RECURSIVE SourceOf(_)
SourceOf(e) ==
  IF e = <<>> \/ Head(e).tag = "Err" THEN <<>>
  ELSE <<ExpectedDeclarations(Head(e).block_number, Head(e).classes)>> \o SourceOf(Tail(e))

\* The stage is passed the classes of H one by one, up to its first error item.
RECURSIVE ClassesOf(_)
ClassesOf(h) ==
  IF h = <<>> \/ Head(h).tag = "Err" THEN <<>>
  ELSE Head(h).chunk \o ClassesOf(Tail(h))

StageInit ==
  /\ expectation_source = [r \in Runs |-> SourceOf(inE[r])]
  /\ current = [r \in Runs |-> ExpectedDeclarations(0, {})]
  /\ stage_input = [r \in Runs |-> ClassesOf(inH[r])]
  /\ results = [r \in Runs |-> <<>>]

\* ---------------------------------------------------------------- persist

\* Definition bytes of a class, and the bytes of a compiled (casm) definition.
Bytes == {"x", "y"}
CasmBytes == {"k"}
NoCasmHash == "none"
CasmHashValues == {"c", "d"}

\* CompiledClass with its CompiledClassDefinition: Cairo(definition) or
\* Sierra { sierra_definition, casm_definition }.
CompiledClasses ==
  {[block_number |-> b, hash |-> h, variant |-> "Cairo", definition |-> d,
    casm_definition |-> ""] : b \in Blocks, h \in Hashes, d \in Bytes}
  \cup
  {[block_number |-> b, hash |-> h, variant |-> "Sierra", definition |-> d,
    casm_definition |-> k] : b \in Blocks, h \in Hashes, d \in Bytes, k \in CasmBytes}

\* A row of the database for one class hash.
NoRow == [variant |-> "None", definition |-> "", casm_hash |-> "", casm_definition |-> ""]
CairoRow(definition) ==
  [variant |-> "Cairo", definition |-> definition, casm_hash |-> "", casm_definition |-> ""]
SierraRow(sierra_definition, casm_hash, casm_definition) ==
  [variant |-> "Sierra", definition |-> sierra_definition, casm_hash |-> casm_hash,
   casm_definition |-> casm_definition]

\* The databases a call may find: any class-hash to casm-hash mapping, and
\* classes already stored.
Databases ==
  [rows : [Hashes -> {NoRow, CairoRow("x")}],
   casm_hashes : [Hashes -> CasmHashValues \cup {NoCasmHash}]]

EmptyDatabase ==
  [rows |-> [h \in Hashes |-> NoRow], casm_hashes |-> [h \in Hashes |-> NoCasmHash]]

\* No transaction is open.
NoTransaction == [open |-> FALSE, view |-> EmptyDatabase]

\* Storage: Transaction::update_cairo_class.
UpdateCairoClass(tx, hash, definition) ==
  [tx EXCEPT !.rows[hash] = CairoRow(definition)]

\* Storage: Transaction::update_sierra_class.
UpdateSierraClass(tx, hash, sierra_definition, casm_hash, casm_definition) ==
  [tx EXCEPT !.rows[hash] = SierraRow(sierra_definition, casm_hash, casm_definition)]

\* Storage: Transaction::casm_hash, NoCasmHash for None.
CasmHash(tx, hash) == tx.casm_hashes[hash]

\* Storage: Connection::transaction opens a transaction on the committed content.
BeginTransaction(db) == [open |-> TRUE, view |-> db]

\* Storage: Transaction::commit makes the transaction's writes the committed content.
Commit(db, tx) == tx.view

\* Storage: a transaction dropped without commit is rolled back.
Rollback(db, tx) == db

PersistOk(block_number) ==
  [tag |-> "Ok", block_number |-> block_number, error |-> "", at |-> 0]
\* `at`: the position in the batch of the element whose processing failed (0: before
\* the loop, Len + 1: at the commit).
PersistErr(error, at) ==
  [tag |-> "Err", block_number |-> 0, error |-> error, at |-> at]
NoResult == [tag |-> "None", block_number |-> 0, error |-> "", at |-> 0]

\* Mutant of WriteClass: a Sierra class without a casm-hash mapping is written
\* with the casm hash "c".
WriteClass_DefaultCasmHash(tx, class, failure) ==
  IF class.variant = "Cairo"
  THEN IF failure = "update"
       THEN [ok |-> FALSE, error |-> "Updating cairo class definition", tx |-> tx]
       ELSE [ok |-> TRUE, error |-> "",
             tx |-> UpdateCairoClass(tx, class.hash, class.definition)]
  ELSE IF failure = "casm_hash"
    THEN [ok |-> FALSE, error |-> "Getting casm hash for sierra class", tx |-> tx]
    ELSE IF failure = "update"
      THEN [ok |-> FALSE, error |-> "Updating sierra class definition", tx |-> tx]
      ELSE [ok |-> TRUE, error |-> "",
            tx |-> UpdateSierraClass(tx, class.hash, class.definition,
                     IF CasmHash(tx, class.hash) = NoCasmHash THEN "c"
                     ELSE CasmHash(tx, class.hash),
                     class.casm_definition)]

\* The body of the `for` loop for one element: `failure` names the storage step
\* that fails, if any.
WriteClass(tx, class, failure) ==
  IF class.variant = "Cairo"
  THEN IF failure = "update"
       THEN [ok |-> FALSE, error |-> "Updating cairo class definition", tx |-> tx]
       ELSE [ok |-> TRUE, error |-> "",
             tx |-> UpdateCairoClass(tx, class.hash, class.definition)]
  ELSE IF failure = "casm_hash"
    THEN [ok |-> FALSE, error |-> "Getting casm hash for sierra class", tx |-> tx]
    ELSE IF CasmHash(tx, class.hash) = NoCasmHash
      THEN [ok |-> FALSE, error |-> "Casm hash not found", tx |-> tx]
      ELSE IF failure = "update"
        THEN [ok |-> FALSE, error |-> "Updating sierra class definition", tx |-> tx]
        ELSE [ok |-> TRUE, error |-> "",
              tx |-> UpdateSierraClass(tx, class.hash, class.definition,
                                       CasmHash(tx, class.hash), class.casm_definition)]

\* `?` on an error: the closure returns, the transaction is dropped.
PersistFail(error, at) ==
  /\ persist_result' = PersistErr(error, at)
  /\ persist_pc' = "returned"
  /\ database' = (IF transaction.open THEN Rollback(database, transaction) ELSE database)
  /\ transaction' = NoTransaction

\* Mutant of PersistBegin: an empty batch is not refused, its transaction goes on
\* to the loop and the commit.
PersistBegin_AcceptEmpty ==
  /\ persist_pc = "call"
  /\ \E failure \in {"none", "connection", "transaction"} :
       IF failure = "connection"
       THEN PersistFail("Creating database connection", 0) /\ UNCHANGED tail
       ELSE IF failure = "transaction"
         THEN PersistFail("Creating database transaction", 0) /\ UNCHANGED tail
         ELSE /\ transaction' = BeginTransaction(database)
              /\ tail' = (IF inClasses = <<>> THEN 0
                          ELSE inClasses[Len(inClasses)].block_number)
              /\ persist_pc' = "loop"
              /\ UNCHANGED <<database, persist_result>>
  /\ UNCHANGED <<inDatabase, inClasses, persist_classes, matcherVars, stageVars,
               extraVars>>

\* storage.connection(), connection.transaction(), classes.last().
PersistBegin ==
  /\ persist_pc = "call"
  /\ \E failure \in {"none", "connection", "transaction"} :
       IF failure = "connection"
       THEN PersistFail("Creating database connection", 0) /\ UNCHANGED tail
       ELSE IF failure = "transaction"
         THEN PersistFail("Creating database transaction", 0) /\ UNCHANGED tail
         ELSE IF inClasses = <<>>
           THEN PersistFail("No class definitions to persist", 0) /\ UNCHANGED tail
           ELSE /\ transaction' = BeginTransaction(database)
                /\ tail' = inClasses[Len(inClasses)].block_number
                /\ persist_pc' = "loop"
                /\ UNCHANGED <<database, persist_result>>
  /\ UNCHANGED <<inDatabase, inClasses, persist_classes, matcherVars, stageVars,
               extraVars>>

\* Mutant of PersistClass: every write is committed when it is made.
PersistClass_AutoCommit ==
  /\ persist_pc = "loop"
  /\ persist_classes # <<>>
  /\ \E failure \in {"none", "casm_hash", "update"} :
       LET w == WriteClass(transaction.view, Head(persist_classes), failure)
           at == Len(inClasses) - Len(persist_classes) + 1
       IN IF w.ok
          THEN /\ transaction' = [transaction EXCEPT !.view = w.tx]
               /\ database' = w.tx
               /\ persist_classes' = Tail(persist_classes)
               /\ UNCHANGED <<persist_pc, persist_result>>
          ELSE /\ persist_result' = PersistErr(w.error, at)
               /\ persist_pc' = "returned"
               /\ transaction' = NoTransaction
               /\ UNCHANGED <<database, persist_classes>>
  /\ UNCHANGED <<inDatabase, inClasses, tail, matcherVars, stageVars, extraVars>>

\* One iteration of `for CompiledClass { .. } in classes`.
PersistClass ==
  /\ persist_pc = "loop"
  /\ persist_classes # <<>>
  /\ \E failure \in {"none", "casm_hash", "update"} :
       LET w == WriteClass(transaction.view, Head(persist_classes), failure)
           at == Len(inClasses) - Len(persist_classes) + 1
       IN IF w.ok
          THEN /\ transaction' = [transaction EXCEPT !.view = w.tx]
               /\ persist_classes' = Tail(persist_classes)
               /\ UNCHANGED <<database, persist_pc, persist_result>>
          ELSE /\ PersistFail(w.error, at)
               /\ UNCHANGED persist_classes
  /\ UNCHANGED <<inDatabase, inClasses, tail, matcherVars, stageVars, extraVars>>

\* `transaction.commit()` and `Ok(tail)`.
PersistCommit ==
  /\ persist_pc = "loop"
  /\ persist_classes = <<>>
  /\ \E failure \in {"none", "commit"} :
       IF failure = "commit"
       THEN PersistFail("Committing db transaction", Len(inClasses) + 1)
       ELSE /\ database' = Commit(database, transaction)
            /\ transaction' = NoTransaction
            /\ persist_result' = PersistOk(tail)
            /\ persist_pc' = "returned"
  /\ UNCHANGED <<inDatabase, inClasses, persist_classes, tail, matcherVars, stageVars,
               extraVars>>

PersistInit ==
  /\ \E db \in Databases, batch \in SeqsUpTo(CompiledClasses, MaxBatch) :
       /\ inDatabase = db
       /\ inClasses = batch
  /\ database = inDatabase
  /\ transaction = NoTransaction
  /\ persist_classes = inClasses
  /\ tail = 0
  /\ persist_pc = "call"
  /\ persist_result = NoResult

\* persist is not called.
PersistIdle ==
  /\ inDatabase = EmptyDatabase
  /\ inClasses = <<>>
  /\ database = EmptyDatabase
  /\ transaction = NoTransaction
  /\ persist_classes = <<>>
  /\ tail = 0
  /\ persist_pc = "idle"
  /\ persist_result = NoResult

\* ------------------------------------------------------ Store::map (stage)

\* The classes the calls of the Store specification are given.
StoreClasses ==
  {c \in CompiledClasses : c.block_number = 1 /\ c.definition = "x"}

\* The classes the calls of Store::map are given: of any block.
StoreInputs == {c \in CompiledClasses : c.definition = "x"}

NoClass ==
  [block_number |-> 0, hash |-> NoHash, variant |-> "None", definition |-> "",
   casm_definition |-> ""]

StoreOk(block_number) == [tag |-> "Ok", block_number |-> block_number, error |-> ""]
StoreErr(error) == [tag |-> "Err", block_number |-> 0, error |-> error]

\* Mutant of StoreMap: the write stays when the commit has failed.
StoreMap_WriteOnFailedCommit ==
  /\ persist_pc \in {"idle", "returned"}
  /\ \E input \in StoreInputs,
        failure \in {"none", "transaction", "casm_hash", "update", "commit"} :
       LET db == BeginTransaction(database)
           w == WriteClass(db.view, input, failure)
       IN /\ store_input' = input
          /\ IF failure = "transaction"
             THEN /\ store_result' = StoreErr("Creating database transaction")
                  /\ UNCHANGED database
             ELSE IF ~w.ok
               THEN /\ store_result' = StoreErr(w.error)
                    /\ database' = Rollback(database, db)
               ELSE IF failure = "commit"
                 THEN /\ store_result' = StoreErr("Committing db transaction")
                      /\ database' = w.tx
                 ELSE /\ store_result' = StoreOk(input.block_number)
                      /\ database' = Commit(database, [db EXCEPT !.view = w.tx])
  /\ inDatabase' = database'
  /\ inClasses' = <<>>
  /\ persist_pc' = "idle"
  /\ persist_result' = NoResult
  /\ persist_classes' = <<>>
  /\ tail' = 0
  /\ UNCHANGED transaction
  /\ UNCHANGED <<matcherVars, stageVars, poolVars, callVars, hashesVars, sourceVars,
               routerVars>>

\* Store::map: a transaction of its own for the one class, committed before Ok.
\* What an earlier call of persist was given and returned is forgotten.
StoreMap ==
  /\ persist_pc \in {"idle", "returned"}
  /\ \E input \in StoreInputs,
        failure \in {"none", "transaction", "casm_hash", "update", "commit"} :
       LET db == BeginTransaction(database)
           w == WriteClass(db.view, input, failure)
       IN /\ store_input' = input
          /\ IF failure = "transaction"
             THEN /\ store_result' = StoreErr("Creating database transaction")
                  /\ UNCHANGED database
             ELSE IF ~w.ok
               THEN /\ store_result' = StoreErr(w.error)
                    /\ database' = Rollback(database, db)
               ELSE IF failure = "commit"
                 THEN /\ store_result' = StoreErr("Committing db transaction")
                      /\ database' = Rollback(database, db)
                 ELSE /\ store_result' = StoreOk(input.block_number)
                      /\ database' = Commit(database, [db EXCEPT !.view = w.tx])
  /\ inDatabase' = database'
  /\ inClasses' = <<>>
  /\ persist_pc' = "idle"
  /\ persist_result' = NoResult
  /\ persist_classes' = <<>>
  /\ tail' = 0
  /\ UNCHANGED transaction
  /\ UNCHANGED <<matcherVars, stageVars, poolVars, callVars, hashesVars, sourceVars,
               routerVars>>

\* persist is called again, on the database as the earlier calls left it. What an
\* earlier call of Store::map was given and returned is forgotten.
PersistCall ==
  /\ persist_pc \in {"idle", "returned"}
  /\ \E batch \in SeqsUpTo(StoreClasses, MaxBatch) :
       /\ inClasses' = batch
       /\ persist_classes' = batch
  /\ inDatabase' = database
  /\ tail' = 0
  /\ persist_pc' = "call"
  /\ persist_result' = NoResult
  /\ store_input' = NoClass
  /\ store_result' = NoResult
  /\ UNCHANGED <<database, transaction>>
  /\ UNCHANGED <<matcherVars, stageVars, poolVars, callVars, hashesVars, sourceVars,
               routerVars>>

\* The block-header pipeline records the casm hash of a class hash that has none.
\* What the earlier calls were given and returned is forgotten.
InsertCasmHash ==
  /\ persist_pc \in {"idle", "returned"}
  /\ \E hash \in Hashes, casm_hash \in CasmHashValues :
       /\ database.casm_hashes[hash] = NoCasmHash
       /\ database' = [database EXCEPT !.casm_hashes[hash] = casm_hash]
  /\ inDatabase' = database'
  /\ inClasses' = <<>>
  /\ persist_pc' = "idle"
  /\ persist_result' = NoResult
  /\ store_input' = NoClass
  /\ store_result' = NoResult
  /\ persist_classes' = <<>>
  /\ tail' = 0
  /\ UNCHANGED transaction
  /\ UNCHANGED <<matcherVars, stageVars, poolVars, callVars, hashesVars, sourceVars,
               routerVars>>

StoreInit ==
  /\ \E db \in Databases :
       /\ inDatabase = db
       /\ database = db
  /\ inClasses = <<>>
  /\ transaction = NoTransaction
  /\ persist_classes = <<>>
  /\ tail = 0
  /\ persist_pc = "idle"
  /\ persist_result = NoResult
  /\ store_input = NoClass
  /\ store_result = NoResult

\* ------------------------------------- hashing and compiling on worker threads

\* The calls made at the same time.
Calls == {1, 2}

BatchFns == {"compute_hash", "compile_sierra_to_casm_or_fetch"}
SingleFns == {"compute_hash0", "ComputeHash::map", "CompileSierraToCasm::map"}
HashFns == {"compute_hash", "compute_hash0", "ComputeHash::map"}
CompileFns == {"compile_sierra_to_casm_or_fetch", "CompileSierraToCasm::map"}
\* The functions whose input carries no peer.
StageFns == {"ComputeHash::map", "CompileSierraToCasm::map"}

NoPeer == 0
\* The peer of the element at position i of the batch of call c: no two elements
\* have the same peer.
PeerOf(c, i) == 10 * c + i

\* A layout is named by the class hash its content hashes to; the hash of a
\* layout with malformed content cannot be computed.
Malformed == "malformed"
Layouts == Hashes \cup {Malformed}

\* ClassWithLayout.
ClassesWithLayout ==
  {[block_number |-> 1, hash |-> NoHash, variant |-> "Cairo", definition |-> "x",
    layout |-> l] : l \in Layouts}
  \cup
  {[block_number |-> 2, hash |-> NoHash, variant |-> "Sierra", definition |-> "y",
    layout |-> l] : l \in Layouts}

\* Class; the field layout is not part of it.
PoolClasses ==
  {[block_number |-> bh[1], hash |-> bh[2], variant |-> vd[1], definition |-> vd[2],
    layout |-> NoHash] :
     bh \in {<<1, "A">>, <<2, "B">>},
     vd \in {<<"Cairo", "x">>, <<"Sierra", "x">>, <<"Sierra", "y">>}}

PoolInputs(fn) == IF fn \in HashFns THEN ClassesWithLayout ELSE PoolClasses

\* compute_cairo_class_hash and compute_sierra_class_hash.
ComputeClassHash(layout) ==
  IF layout = Malformed THEN [ok |-> FALSE, hash |-> NoHash]
  ELSE [ok |-> TRUE, hash |-> layout]

\* pathfinder_compiler::compile_to_casm: the definition "x" compiles, "y" does not.
CompileToCasm(sierra_definition) ==
  IF sierra_definition = "x" THEN [ok |-> TRUE, casm |-> "k"]
  ELSE [ok |-> FALSE, casm |-> ""]

\* GatewayApi::pending_casm_by_hash: the casm definition the gateway holds for a
\* class hash, when the request succeeds.
GatewayCasm(hash) == IF hash = "A" THEN "gA" ELSE "gB"

\* What a closure or a call returns. `value`: PeerData<Class> or
\* PeerData<CompiledClass> (peer NoPeer and casm_definition "" where there is none).
PoolOk(value) == [tag |-> "Ok", error |-> "", peer |-> NoPeer, value |-> value]
PoolErr(error) == [tag |-> "Err", error |-> error, peer |-> NoPeer, value |-> <<>>]
\* .expect() on an error.
PoolPanic(message) == [tag |-> "Panic", error |-> message, peer |-> NoPeer, value |-> <<>>]
PoolNone == [tag |-> "None", error |-> "", peer |-> NoPeer, value |-> <<>>]

PoolValue(peer, block_number, hash, variant, definition, casm_definition) ==
  [peer |-> peer, block_number |-> block_number, hash |-> hash, variant |-> variant,
   definition |-> definition, casm_definition |-> casm_definition]

\* The hashing of one class, as each of the three functions does it.
HashOne(fn, pd) ==
  LET h == ComputeClassHash(pd.data.layout)
  IN IF h.ok
     THEN PoolOk(PoolValue(pd.peer, pd.data.block_number, h.hash, pd.data.variant,
                           pd.data.definition, ""))
     ELSE IF fn = "compute_hash" THEN PoolPanic("todo fixme add error type")
     ELSE IF fn = "compute_hash0" THEN PoolErr("Computing class hash")
     ELSE PoolErr("hash computation")

\* Mutant of CompileOne: the gateway is asked first.
CompileOne_GatewayFirst(pd, gateway_ok) ==
  IF pd.data.variant = "Cairo"
  THEN [fetched |-> <<>>,
        result |-> PoolOk(PoolValue(pd.peer, pd.data.block_number, pd.data.hash, "Cairo",
                                    pd.data.definition, ""))]
  ELSE IF gateway_ok
    THEN [fetched |-> <<pd.data.hash>>,
          result |-> PoolOk(PoolValue(pd.peer, pd.data.block_number, pd.data.hash,
                                      "Sierra", pd.data.definition,
                                      GatewayCasm(pd.data.hash)))]
    ELSE LET casm_definition == CompileToCasm(pd.data.definition)
         IN IF casm_definition.ok
            THEN [fetched |-> <<pd.data.hash>>,
                  result |-> PoolOk(PoolValue(pd.peer, pd.data.block_number,
                                              pd.data.hash, "Sierra", pd.data.definition,
                                              casm_definition.casm))]
            ELSE [fetched |-> <<pd.data.hash>>,
                  result |-> PoolErr("Fetching casm definition from gateway")]

\* Mutant of CompileOne: the gateway is asked for every Sierra class, whatever
\* the local compiler returned.
CompileOne_FetchAnyway(pd, gateway_ok) ==
  IF pd.data.variant = "Cairo"
  THEN [fetched |-> <<>>,
        result |-> PoolOk(PoolValue(pd.peer, pd.data.block_number, pd.data.hash, "Cairo",
                                    pd.data.definition, ""))]
  ELSE LET casm_definition == CompileToCasm(pd.data.definition)
       IN IF casm_definition.ok
          THEN [fetched |-> <<pd.data.hash>>,
                result |-> PoolOk(PoolValue(pd.peer, pd.data.block_number, pd.data.hash,
                                            "Sierra", pd.data.definition,
                                            casm_definition.casm))]
          ELSE IF gateway_ok
            THEN [fetched |-> <<pd.data.hash>>,
                  result |-> PoolOk(PoolValue(pd.peer, pd.data.block_number,
                                              pd.data.hash, "Sierra", pd.data.definition,
                                              GatewayCasm(pd.data.hash)))]
            ELSE [fetched |-> <<pd.data.hash>>,
                  result |-> PoolErr("Fetching casm definition from gateway")]

\* The compilation of one class, the same in both forms: `fetched` lists the class
\* hashes the gateway was asked for, `gateway_ok` tells whether a request succeeds.
CompileOne(pd, gateway_ok) ==
  IF pd.data.variant = "Cairo"
  THEN [fetched |-> <<>>,
        result |-> PoolOk(PoolValue(pd.peer, pd.data.block_number, pd.data.hash, "Cairo",
                                    pd.data.definition, ""))]
  ELSE LET casm_definition == CompileToCasm(pd.data.definition)
       IN IF casm_definition.ok
          THEN [fetched |-> <<>>,
                result |-> PoolOk(PoolValue(pd.peer, pd.data.block_number, pd.data.hash,
                                            "Sierra", pd.data.definition,
                                            casm_definition.casm))]
          ELSE IF gateway_ok
            THEN [fetched |-> <<pd.data.hash>>,
                  result |-> PoolOk(PoolValue(pd.peer, pd.data.block_number,
                                              pd.data.hash, "Sierra", pd.data.definition,
                                              GatewayCasm(pd.data.hash)))]
            ELSE [fetched |-> <<pd.data.hash>>,
                  result |-> PoolErr("Fetching casm definition from gateway")]

\* A position of a batch: not yet worked on, or what its closure returned, with
\* `stamp` the rank of its completion among all closures.
Pending == [done |-> FALSE, stamp |-> 0, fetched |-> <<>>, result |-> PoolNone]
Done(stamp, fetched, result) ==
  [done |-> TRUE, stamp |-> stamp, fetched |-> fetched, result |-> result]

Completed ==
  Cardinality({ci \in Calls \X (1..MaxBatch) :
                 ci[2] \in DOMAIN slots[ci[1]] /\ slots[ci[1]][ci[2]].done})

\* A worker thread (for the single-class functions: the function's own body) runs
\* the closure on one element of the input of call c.
Work(c) ==
  /\ pool_result[c] = PoolNone
  /\ \E i \in DOMAIN slots[c], gateway_ok \in BOOLEAN :
       /\ ~slots[c][i].done
       /\ LET pd == peer_data[c][i]
              w == IF pool_fn \in HashFns
                   THEN [fetched |-> <<>>, result |-> HashOne(pool_fn, pd)]
                   ELSE CompileOne(pd, gateway_ok)
          IN slots' = [slots EXCEPT ![c][i] = Done(Completed + 1, w.fetched, w.result)]
  /\ UNCHANGED <<pool_fn, peer_data, pool_result>>
  /\ UNCHANGED <<matcherVars, stageVars, persistVars, storeVars, callVars, hashesVars,
                 sourceVars, routerVars>>

\* Mutant of Collected: the results are gathered in the reverse order.
Collected_Reversed(sl) ==
  [i \in 1..Len(sl) |-> sl[Len(sl) + 1 - i].result.value]

\* collect() of the parallel iterator: the values in the order of the input.
Collected(sl) ==
  [i \in 1..Len(sl) |-> sl[i].result.value]

\* The call returns: collect(), tx.send(res) and rx.await for the batch functions,
\* the function's result for the others. A panic of a closure unwinds the spawned
\* job: the call does not return a value.
Return(c) ==
  /\ pool_result[c] = PoolNone
  /\ \/ /\ \A i \in DOMAIN slots[c] : slots[c][i].done /\ slots[c][i].result.tag = "Ok"
        /\ pool_result' = [pool_result EXCEPT ![c] = PoolOk(Collected(slots[c]))]
     \/ \E i \in DOMAIN slots[c] :
          /\ slots[c][i].done
          /\ slots[c][i].result.tag \in {"Err", "Panic"}
          /\ \A j \in DOMAIN slots[c] :
               (slots[c][j].done /\ slots[c][j].result.tag = "Panic")
                 => slots[c][i].result.tag = "Panic"
          /\ pool_result' = [pool_result EXCEPT ![c] = slots[c][i].result]
  /\ UNCHANGED <<pool_fn, peer_data, slots>>
  /\ UNCHANGED <<matcherVars, stageVars, persistVars, storeVars, callVars, hashesVars,
                 sourceVars, routerVars>>

\* The input of call c: the elements `items` with their peers.
WithPeers(fn, c, items) ==
  [i \in 1..Len(items) |->
     [peer |-> IF fn \in StageFns THEN NoPeer ELSE PeerOf(c, i), data |-> items[i]]]

\* Two calls of one function: the first on any input, the second on one class
\* (or, for a batch function, on the empty batch).
PoolInit ==
  /\ pool_fn \in BatchFns \cup SingleFns
  /\ \E items1 \in SeqsUpTo(PoolInputs(pool_fn), MaxBatch),
        items2 \in SeqsUpTo(PoolInputs(pool_fn), 1) :
       /\ pool_fn \in SingleFns => (Len(items1) = 1 /\ Len(items2) = 1)
       /\ peer_data = [c \in Calls |-> WithPeers(pool_fn, c, IF c = 1 THEN items1 ELSE items2)]
  /\ slots = [c \in Calls |-> [i \in 1..Len(peer_data[c]) |-> Pending]]
  /\ pool_result = [c \in Calls |-> PoolNone]

\* ------------------------------------------------ verify_layout, next_missing

NoCall == [fn |-> "none"]
NoRet == [tag |-> "None"]

\* The blobs a peer sends, named by what they parse as.
Blobs == {"cairo", "sierra", "both", "garbage"}

\* serde_json::from_slice::<Cairo> and ::<Sierra> on a blob.
ParsesAs(definition, variant) ==
  \/ definition = "both"
  \/ variant = "Cairo" /\ definition = "cairo"
  \/ variant = "Sierra" /\ definition = "sierra"

\* PeerData<P2PClassDefinition>: `variant` is the tag the transport gave the blob.
P2PClassDefinitions ==
  [peer : {1, 2}, variant : {"Cairo", "Sierra"}, block_number : Blocks,
   definition : Blobs]

BadClassLayout(peer) ==
  [tag |-> "Err", error |-> "BadClassLayout", peer |-> peer]
\* PeerData<ClassWithLayout>: `layout` is the variant of the parsed GwClassDefinition.
LayoutOk(peer, block_number, variant, definition, layout) ==
  [tag |-> "Ok", peer |-> peer, block_number |-> block_number, variant |-> variant,
   definition |-> definition, layout |-> layout]

\* Mutant of VerifyLayout: the variant is found by trying both parsers.
VerifyLayout_Sniffing(input) ==
  IF ParsesAs(input.definition, "Cairo")
  THEN LayoutOk(input.peer, input.block_number, "Cairo", input.definition,
                "Cairo")
  ELSE IF ParsesAs(input.definition, "Sierra")
    THEN LayoutOk(input.peer, input.block_number, "Sierra",
                  input.definition, "Sierra")
    ELSE BadClassLayout(input.peer)

VerifyLayout(input) ==
  IF input.variant = "Cairo"
  THEN IF ParsesAs(input.definition, "Cairo")
       THEN LayoutOk(input.peer, input.block_number, "Cairo",
                     input.definition, "Cairo")
       ELSE BadClassLayout(input.peer)
  ELSE IF ParsesAs(input.definition, "Sierra")
       THEN LayoutOk(input.peer, input.block_number, "Sierra",
                     input.definition, "Sierra")
       ELSE BadClassLayout(input.peer)

\* verify_layout is called on any blob.
VerifyLayoutCall ==
  /\ \E input \in P2PClassDefinitions :
       /\ call' = [fn |-> "verify_layout", peer_data |-> input]
       /\ ret' = VerifyLayout(input)
  /\ UNCHANGED <<matcherVars, stageVars, persistVars, storeVars, poolVars, hashesVars,
                 sourceVars, routerVars>>

\* Storage: first_block_with_missing_class_definitions, on the set of the blocks
\* that miss a class definition: the lowest of them, 0 - 1 standing for None.
FirstBlockWithMissingClassDefinitions(missing_blocks) ==
  IF missing_blocks = {} THEN 0 - 1
  ELSE CHOOSE b \in missing_blocks : \A other \in missing_blocks : b <= other

NextMissingSome(block) == [tag |-> "Ok", some |-> TRUE, block |-> block, error |-> ""]
NextMissingNone == [tag |-> "Ok", some |-> FALSE, block |-> 0, error |-> ""]
NextMissingErr(error) == [tag |-> "Err", some |-> FALSE, block |-> 0, error |-> error]

\* Mutant of NextMissing: a first missing block equal to head is not reported.
NextMissing_BelowHead(missing_blocks, head, failure) ==
  IF failure = "connection" THEN NextMissingErr("Creating database connection")
  ELSE IF failure = "transaction" THEN NextMissingErr("Creating database transaction")
  ELSE IF failure = "query"
    THEN NextMissingErr("Querying first block number with missing class definitions")
    ELSE LET next_missing == FirstBlockWithMissingClassDefinitions(missing_blocks)
         IN IF next_missing # 0 - 1 /\ next_missing < head
            THEN NextMissingSome(next_missing)
            ELSE NextMissingNone

\* next_missing: `failure` names the storage step that fails, if any. The blocking
\* closure neither panics nor is cancelled, so joining it does not fail.
NextMissing(missing_blocks, head, failure) ==
  IF failure = "connection" THEN NextMissingErr("Creating database connection")
  ELSE IF failure = "transaction" THEN NextMissingErr("Creating database transaction")
  ELSE IF failure = "query"
    THEN NextMissingErr("Querying first block number with missing class definitions")
    ELSE LET next_missing == FirstBlockWithMissingClassDefinitions(missing_blocks)
         IN IF next_missing # 0 - 1 /\ next_missing <= head
            THEN NextMissingSome(next_missing)
            ELSE NextMissingNone

\* next_missing is called on any storage with any head.
NextMissingCall ==
  /\ \E missing_blocks \in SUBSET (0..MaxBlock), head \in 0..MaxBlock,
        failure \in {"none", "connection", "transaction", "query"} :
       /\ call' = [fn |-> "next_missing", missing_blocks |-> missing_blocks,
                   head |-> head, failure |-> failure]
       /\ ret' = NextMissing(missing_blocks, head, failure)
  /\ UNCHANGED <<matcherVars, stageVars, persistVars, storeVars, poolVars, hashesVars,
                 sourceVars, routerVars>>

\* ------------------------------------- rpc dto: the status enums of a receipt

\* Text is a sequence of characters, so that the case of a name can be computed.
LowerCase ==
  <<"a", "b", "c", "d", "e", "f", "g", "h", "i", "j", "k", "l", "m",
    "n", "o", "p", "q", "r", "s", "t", "u", "v", "w", "x", "y", "z">>
UpperCase ==
  <<"A", "B", "C", "D", "E", "F", "G", "H", "I", "J", "K", "L", "M",
    "N", "O", "P", "Q", "R", "S", "T", "U", "V", "W", "X", "Y", "Z">>

\* The variants, by the names the enums declare.
Received == <<"R", "e", "c", "e", "i", "v", "e", "d">>
Rejected == <<"R", "e", "j", "e", "c", "t", "e", "d">>
AcceptedOnL2 == <<"A", "c", "c", "e", "p", "t", "e", "d", "O", "n", "L", "2">>
AcceptedOnL1 == <<"A", "c", "c", "e", "p", "t", "e", "d", "O", "n", "L", "1">>
Succeeded == <<"S", "u", "c", "c", "e", "e", "d", "e", "d">>
Reverted == <<"R", "e", "v", "e", "r", "t", "e", "d">>

TxnStatus == {Received, Rejected, AcceptedOnL2, AcceptedOnL1}
TxnExecutionStatus == {Succeeded, Reverted}
TxnFinalityStatus == {AcceptedOnL2, AcceptedOnL1}

StatusEnums == {"TxnStatus", "TxnExecutionStatus", "TxnFinalityStatus"}
VariantsOf(enum) ==
  CASE enum = "TxnStatus" -> TxnStatus
    [] enum = "TxnExecutionStatus" -> TxnExecutionStatus
    [] enum = "TxnFinalityStatus" -> TxnFinalityStatus

\* `<&str>.serialize(serializer)`: the JSON string with this text.
JsonString(text) == [tag |-> "Ok", json |-> "string", text |-> text]

\* Mutant of SerializeTxnStatus: AcceptedOnL1 is given the text of AcceptedOnL2.
SerializeTxnStatus_L1AsL2(status) ==
  JsonString(
    CASE status = Received -> <<"R", "E", "C", "E", "I", "V", "E", "D">>
      [] status = Rejected -> <<"R", "E", "J", "E", "C", "T", "E", "D">>
      [] status = AcceptedOnL2 ->
           <<"A", "C", "C", "E", "P", "T", "E", "D", "_", "O", "N", "_", "L", "2">>
      [] status = AcceptedOnL1 ->
           <<"A", "C", "C", "E", "P", "T", "E", "D", "_", "O", "N", "_", "L", "2">>)

\* <TxnStatus as SerializeForVersion>::serialize
SerializeTxnStatus(status) ==
  JsonString(
    CASE status = Received -> <<"R", "E", "C", "E", "I", "V", "E", "D">>
      [] status = Rejected -> <<"R", "E", "J", "E", "C", "T", "E", "D">>
      [] status = AcceptedOnL2 ->
           <<"A", "C", "C", "E", "P", "T", "E", "D", "_", "O", "N", "_", "L", "2">>
      [] status = AcceptedOnL1 ->
           <<"A", "C", "C", "E", "P", "T", "E", "D", "_", "O", "N", "_", "L", "1">>)

\* <TxnExecutionStatus as SerializeForVersion>::serialize
SerializeTxnExecutionStatus(status) ==
  JsonString(
    CASE status = Succeeded -> <<"S", "U", "C", "C", "E", "E", "D", "E", "D">>
      [] status = Reverted -> <<"R", "E", "V", "E", "R", "T", "E", "D">>)

\* <TxnFinalityStatus as SerializeForVersion>::serialize
SerializeTxnFinalityStatus(status) ==
  JsonString(
    CASE status = AcceptedOnL2 ->
           <<"A", "C", "C", "E", "P", "T", "E", "D", "_", "O", "N", "_", "L", "2">>
      [] status = AcceptedOnL1 ->
           <<"A", "C", "C", "E", "P", "T", "E", "D", "_", "O", "N", "_", "L", "1">>)

SerializeStatus(enum, status) ==
  CASE enum = "TxnStatus" -> SerializeTxnStatus(status)
    [] enum = "TxnExecutionStatus" -> SerializeTxnExecutionStatus(status)
    [] enum = "TxnFinalityStatus" -> SerializeTxnFinalityStatus(status)

\* A status value of any of the three enums is serialized.
SerializeCall ==
  /\ \E enum \in StatusEnums :
       \E status \in VariantsOf(enum) :
         /\ call' = [fn |-> "serialize", enum |-> enum, status |-> status]
         /\ ret' = SerializeStatus(enum, status)
  /\ UNCHANGED <<matcherVars, stageVars, persistVars, storeVars, poolVars, hashesVars,
                 sourceVars, routerVars>>

CallInit == call = NoCall /\ ret = NoRet

\* ------------------------------------------ rpc v08: the routes of the router

\* What a route is bound to: a function of crate::method, one of the
\* subscription types imported from the modules of crate::method, a closure that
\* returns a fixed text, or a function of crate::pathfinder::methods.
Method(name) == [path |-> "crate::method", name |-> name]
Subscription(name) == [path |-> "crate::method::subscribe", name |-> name]
Closure(text) == [path |-> "closure", name |-> text]
PathfinderMethod(name) == [path |-> "crate::pathfinder::methods", name |-> name]

\* The arguments of one call of RpcRouterBuilder::register.
Route(method_name, method) == [method_name |-> method_name, method |-> method]

\* The calls of register that register_routes chains, in the order of the source.
register_routes ==
  <<
    \* starknet_addDeclareTransaction -> crate::method::add_declare_transaction
    Route(<<"s", "t", "a", "r", "k", "n", "e", "t", "_", "a", "d", "d", "D", "e",
          "c", "l", "a", "r", "e", "T", "r", "a", "n", "s", "a", "c", "t", "i",
          "o", "n">>,
      Method(<<"a", "d", "d", "_", "d", "e", "c", "l", "a", "r", "e", "_", "t", "r",
        "a", "n", "s", "a", "c", "t", "i", "o", "n">>)),
    \* starknet_addDeployAccountTransaction -> crate::method::add_deploy_account_transaction
    Route(<<"s", "t", "a", "r", "k", "n", "e", "t", "_", "a", "d", "d", "D", "e",
          "p", "l", "o", "y", "A", "c", "c", "o", "u", "n", "t", "T", "r", "a",
          "n", "s", "a", "c", "t", "i", "o", "n">>,
      Method(<<"a", "d", "d", "_", "d", "e", "p", "l", "o", "y", "_", "a", "c", "c",
        "o", "u", "n", "t", "_", "t", "r", "a", "n", "s", "a", "c", "t", "i",
        "o", "n">>)),
    \* starknet_addInvokeTransaction -> crate::method::add_invoke_transaction
    Route(<<"s", "t", "a", "r", "k", "n", "e", "t", "_", "a", "d", "d", "I", "n",
          "v", "o", "k", "e", "T", "r", "a", "n", "s", "a", "c", "t", "i", "o",
          "n">>,
      Method(<<"a", "d", "d", "_", "i", "n", "v", "o", "k", "e", "_", "t", "r", "a",
        "n", "s", "a", "c", "t", "i", "o", "n">>)),
    \* starknet_blockHashAndNumber -> crate::method::block_hash_and_number
    Route(<<"s", "t", "a", "r", "k", "n", "e", "t", "_", "b", "l", "o", "c", "k",
          "H", "a", "s", "h", "A", "n", "d", "N", "u", "m", "b", "e", "r">>,
      Method(<<"b", "l", "o", "c", "k", "_", "h", "a", "s", "h", "_", "a", "n", "d",
        "_", "n", "u", "m", "b", "e", "r">>)),
    \* starknet_blockNumber -> crate::method::block_number
    Route(<<"s", "t", "a", "r", "k", "n", "e", "t", "_", "b", "l", "o", "c", "k",
          "N", "u", "m", "b", "e", "r">>,
      Method(<<"b", "l", "o", "c", "k", "_", "n", "u", "m", "b", "e", "r">>)),
    \* starknet_call -> crate::method::call
    Route(<<"s", "t", "a", "r", "k", "n", "e", "t", "_", "c", "a", "l", "l">>,
      Method(<<"c", "a", "l", "l">>)),
    \* starknet_chainId -> crate::method::chain_id
    Route(<<"s", "t", "a", "r", "k", "n", "e", "t", "_", "c", "h", "a", "i", "n",
          "I", "d">>,
      Method(<<"c", "h", "a", "i", "n", "_", "i", "d">>)),
    \* starknet_estimateFee -> crate::method::estimate_fee
    Route(<<"s", "t", "a", "r", "k", "n", "e", "t", "_", "e", "s", "t", "i", "m",
          "a", "t", "e", "F", "e", "e">>,
      Method(<<"e", "s", "t", "i", "m", "a", "t", "e", "_", "f", "e", "e">>)),
    \* starknet_estimateMessageFee -> crate::method::estimate_fee
    Route(<<"s", "t", "a", "r", "k", "n", "e", "t", "_", "e", "s", "t", "i", "m",
          "a", "t", "e", "M", "e", "s", "s", "a", "g", "e", "F", "e", "e">>,
      Method(<<"e", "s", "t", "i", "m", "a", "t", "e", "_", "f", "e", "e">>)),
    \* starknet_getBlockTransactionCount -> crate::method::get_block_transaction_count
    Route(<<"s", "t", "a", "r", "k", "n", "e", "t", "_", "g", "e", "t", "B", "l",
          "o", "c", "k", "T", "r", "a", "n", "s", "a", "c", "t", "i", "o", "n",
          "C", "o", "u", "n", "t">>,
      Method(<<"g", "e", "t", "_", "b", "l", "o", "c", "k", "_", "t", "r", "a", "n",
        "s", "a", "c", "t", "i", "o", "n", "_", "c", "o", "u", "n", "t">>)),
    \* starknet_getBlockWithTxHashes -> crate::method::get_block_with_tx_hashes
    Route(<<"s", "t", "a", "r", "k", "n", "e", "t", "_", "g", "e", "t", "B", "l",
          "o", "c", "k", "W", "i", "t", "h", "T", "x", "H", "a", "s", "h", "e",
          "s">>,
      Method(<<"g", "e", "t", "_", "b", "l", "o", "c", "k", "_", "w", "i", "t", "h",
        "_", "t", "x", "_", "h", "a", "s", "h", "e", "s">>)),
    \* starknet_getBlockWithTxs -> crate::method::get_block_with_txs
    Route(<<"s", "t", "a", "r", "k", "n", "e", "t", "_", "g", "e", "t", "B", "l",
          "o", "c", "k", "W", "i", "t", "h", "T", "x", "s">>,
      Method(<<"g", "e", "t", "_", "b", "l", "o", "c", "k", "_", "w", "i", "t", "h",
        "_", "t", "x", "s">>)),
    \* starknet_getClass -> crate::method::get_class
    Route(<<"s", "t", "a", "r", "k", "n", "e", "t", "_", "g", "e", "t", "C", "l",
          "a", "s", "s">>,
      Method(<<"g", "e", "t", "_", "c", "l", "a", "s", "s">>)),
    \* starknet_getClassAt -> crate::method::get_class_at
    Route(<<"s", "t", "a", "r", "k", "n", "e", "t", "_", "g", "e", "t", "C", "l",
          "a", "s", "s", "A", "t">>,
      Method(<<"g", "e", "t", "_", "c", "l", "a", "s", "s", "_", "a", "t">>)),
    \* starknet_getClassHashAt -> crate::method::get_class_hash_at
    Route(<<"s", "t", "a", "r", "k", "n", "e", "t", "_", "g", "e", "t", "C", "l",
          "a", "s", "s", "H", "a", "s", "h", "A", "t">>,
      Method(<<"g", "e", "t", "_", "c", "l", "a", "s", "s", "_", "h", "a", "s", "h",
        "_", "a", "t">>)),
    \* starknet_getEvents -> crate::method::get_events
    Route(<<"s", "t", "a", "r", "k", "n", "e", "t", "_", "g", "e", "t", "E", "v",
          "e", "n", "t", "s">>,
      Method(<<"g", "e", "t", "_", "e", "v", "e", "n", "t", "s">>)),
    \* starknet_getMessagesStatus -> crate::method::get_messages_status
    Route(<<"s", "t", "a", "r", "k", "n", "e", "t", "_", "g", "e", "t", "M", "e",
          "s", "s", "a", "g", "e", "s", "S", "t", "a", "t", "u", "s">>,
      Method(<<"g", "e", "t", "_", "m", "e", "s", "s", "a", "g", "e", "s", "_", "s",
        "t", "a", "t", "u", "s">>)),
    \* starknet_getNonce -> crate::method::get_nonce
    Route(<<"s", "t", "a", "r", "k", "n", "e", "t", "_", "g", "e", "t", "N", "o",
          "n", "c", "e">>,
      Method(<<"g", "e", "t", "_", "n", "o", "n", "c", "e">>)),
    \* starknet_getStateUpdate -> crate::method::get_state_update
    Route(<<"s", "t", "a", "r", "k", "n", "e", "t", "_", "g", "e", "t", "S", "t",
          "a", "t", "e", "U", "p", "d", "a", "t", "e">>,
      Method(<<"g", "e", "t", "_", "s", "t", "a", "t", "e", "_", "u", "p", "d", "a",
        "t", "e">>)),
    \* starknet_getStorageAt -> crate::method::get_storage_at
    Route(<<"s", "t", "a", "r", "k", "n", "e", "t", "_", "g", "e", "t", "S", "t",
          "o", "r", "a", "g", "e", "A", "t">>,
      Method(<<"g", "e", "t", "_", "s", "t", "o", "r", "a", "g", "e", "_", "a", "t">>)),
    \* starknet_getStorageProof -> crate::method::get_storage_proof
    Route(<<"s", "t", "a", "r", "k", "n", "e", "t", "_", "g", "e", "t", "S", "t",
          "o", "r", "a", "g", "e", "P", "r", "o", "o", "f">>,
      Method(<<"g", "e", "t", "_", "s", "t", "o", "r", "a", "g", "e", "_", "p", "r",
        "o", "o", "f">>)),
    \* starknet_getTransactionByBlockIdAndIndex -> crate::method::get_transaction_by_block_id_and_index
    Route(<<"s", "t", "a", "r", "k", "n", "e", "t", "_", "g", "e", "t", "T", "r",
          "a", "n", "s", "a", "c", "t", "i", "o", "n", "B", "y", "B", "l", "o",
          "c", "k", "I", "d", "A", "n", "d", "I", "n", "d", "e", "x">>,
      Method(<<"g", "e", "t", "_", "t", "r", "a", "n", "s", "a", "c", "t", "i", "o",
        "n", "_", "b", "y", "_", "b", "l", "o", "c", "k", "_", "i", "d", "_",
        "a", "n", "d", "_", "i", "n", "d", "e", "x">>)),
    \* starknet_getTransactionByHash -> crate::method::get_transaction_by_hash
    Route(<<"s", "t", "a", "r", "k", "n", "e", "t", "_", "g", "e", "t", "T", "r",
          "a", "n", "s", "a", "c", "t", "i", "o", "n", "B", "y", "H", "a", "s",
          "h">>,
      Method(<<"g", "e", "t", "_", "t", "r", "a", "n", "s", "a", "c", "t", "i", "o",
        "n", "_", "b", "y", "_", "h", "a", "s", "h">>)),
    \* starknet_getTransactionStatus -> crate::method::get_transaction_status
    Route(<<"s", "t", "a", "r", "k", "n", "e", "t", "_", "g", "e", "t", "T", "r",
          "a", "n", "s", "a", "c", "t", "i", "o", "n", "S", "t", "a", "t", "u",
          "s">>,
      Method(<<"g", "e", "t", "_", "t", "r", "a", "n", "s", "a", "c", "t", "i", "o",
        "n", "_", "s", "t", "a", "t", "u", "s">>)),
    \* starknet_simulateTransactions -> crate::method::simulate_transactions
    Route(<<"s", "t", "a", "r", "k", "n", "e", "t", "_", "s", "i", "m", "u", "l",
          "a", "t", "e", "T", "r", "a", "n", "s", "a", "c", "t", "i", "o", "n",
          "s">>,
      Method(<<"s", "i", "m", "u", "l", "a", "t", "e", "_", "t", "r", "a", "n", "s",
        "a", "c", "t", "i", "o", "n", "s">>)),
    \* starknet_subscribeNewHeads -> SubscribeNewHeads
    Route(<<"s", "t", "a", "r", "k", "n", "e", "t", "_", "s", "u", "b", "s", "c",
          "r", "i", "b", "e", "N", "e", "w", "H", "e", "a", "d", "s">>,
      Subscription(<<"S", "u", "b", "s", "c", "r", "i", "b", "e", "N", "e", "w", "H", "e",
        "a", "d", "s">>)),
    \* starknet_subscribePendingTransactions -> SubscribePendingTransactions
    Route(<<"s", "t", "a", "r", "k", "n", "e", "t", "_", "s", "u", "b", "s", "c",
          "r", "i", "b", "e", "P", "e", "n", "d", "i", "n", "g", "T", "r", "a",
          "n", "s", "a", "c", "t", "i", "o", "n", "s">>,
      Subscription(<<"S", "u", "b", "s", "c", "r", "i", "b", "e", "P", "e", "n", "d", "i",
        "n", "g", "T", "r", "a", "n", "s", "a", "c", "t", "i", "o", "n", "s">>)),
    \* starknet_subscribeEvents -> SubscribeEvents
    Route(<<"s", "t", "a", "r", "k", "n", "e", "t", "_", "s", "u", "b", "s", "c",
          "r", "i", "b", "e", "E", "v", "e", "n", "t", "s">>,
      Subscription(<<"S", "u", "b", "s", "c", "r", "i", "b", "e", "E", "v", "e", "n", "t",
        "s">>)),
    \* starknet_subscribeTransactionStatus -> SubscribeTransactionStatus
    Route(<<"s", "t", "a", "r", "k", "n", "e", "t", "_", "s", "u", "b", "s", "c",
          "r", "i", "b", "e", "T", "r", "a", "n", "s", "a", "c", "t", "i", "o",
          "n", "S", "t", "a", "t", "u", "s">>,
      Subscription(<<"S", "u", "b", "s", "c", "r", "i", "b", "e", "T", "r", "a", "n", "s",
        "a", "c", "t", "i", "o", "n", "S", "t", "a", "t", "u", "s">>)),
    \* starknet_specVersion -> || "0.8.0-rc0"
    Route(<<"s", "t", "a", "r", "k", "n", "e", "t", "_", "s", "p", "e", "c", "V",
          "e", "r", "s", "i", "o", "n">>,
      Closure(<<"0", ".", "8", ".", "0", "-", "r", "c", "0">>)),
    \* starknet_syncing -> crate::method::syncing
    Route(<<"s", "t", "a", "r", "k", "n", "e", "t", "_", "s", "y", "n", "c", "i",
          "n", "g">>,
      Method(<<"s", "y", "n", "c", "i", "n", "g">>)),
    \* starknet_traceBlockTransactions -> crate::method::trace_block_transactions
    Route(<<"s", "t", "a", "r", "k", "n", "e", "t", "_", "t", "r", "a", "c", "e",
          "B", "l", "o", "c", "k", "T", "r", "a", "n", "s", "a", "c", "t", "i",
          "o", "n", "s">>,
      Method(<<"t", "r", "a", "c", "e", "_", "b", "l", "o", "c", "k", "_", "t", "r",
        "a", "n", "s", "a", "c", "t", "i", "o", "n", "s">>)),
    \* starknet_traceTransaction -> crate::method::trace_transaction
    Route(<<"s", "t", "a", "r", "k", "n", "e", "t", "_", "t", "r", "a", "c", "e",
          "T", "r", "a", "n", "s", "a", "c", "t", "i", "o", "n">>,
      Method(<<"t", "r", "a", "c", "e", "_", "t", "r", "a", "n", "s", "a", "c", "t",
        "i", "o", "n">>)),
    \* pathfinder_getProof -> crate::pathfinder::methods::get_proof
    Route(<<"p", "a", "t", "h", "f", "i", "n", "d", "e", "r", "_", "g", "e", "t",
          "P", "r", "o", "o", "f">>,
      PathfinderMethod(<<"g", "e", "t", "_", "p", "r", "o", "o", "f">>))
  >>

\* RpcRouter::builder(crate::RpcVersion::V08): no route yet.
RouterInit == methods = <<>> /\ served = <<>>

\* The next call of register in the chain.
Register ==
  /\ Len(methods) < Len(register_routes)
  /\ methods' = Append(methods, register_routes[Len(methods) + 1])
  /\ UNCHANGED served
  /\ UNCHANGED <<matcherVars, stageVars, persistVars, storeVars, poolVars, callVars,
                 hashesVars, sourceVars>>

\* A method name no route of this version has.
UnknownMethod == <<"s", "t", "a", "r", "k", "n", "e", "t", "_", "p", "i", "n", "g">>
MethodNotFound == [path |-> "error", name |-> <<>>]

\* What the router answers a method name with: the method of a route registered
\* under that name, or MethodNotFound.
Routed(method_name) ==
  IF \E i \in 1..Len(methods) : methods[i].method_name = method_name
  THEN {methods[i].method : i \in {j \in 1..Len(methods) :
                                     methods[j].method_name = method_name}}
  ELSE {MethodNotFound}

\* The router built from the whole chain serves a request.
Serve ==
  /\ Len(methods) = Len(register_routes)
  /\ \E method_name \in {methods[i].method_name : i \in 1..Len(methods)}
                          \cup {UnknownMethod} :
       \E method \in Routed(method_name) :
         served' = (IF served = <<>> THEN <<>> ELSE <<served[Len(served)]>>)
                     \o <<Route(method_name, method)>>
  /\ UNCHANGED methods
  /\ UNCHANGED <<matcherVars, stageVars, persistVars, storeVars, poolVars, callVars,
                 hashesVars, sourceVars>>

\* ----------------- expected_declarations_stream, ExpectedDeclarationsSource

Forms == {"stream", "spawn"}

\* Storage: what declared_classes_at returns for a block, None for a missing header.
NoHeader == [found |-> FALSE, classes |-> {}]
Header(cls) == [found |-> TRUE, classes |-> cls]
Headers == {NoHeader} \cup {Header(cls) : cls \in SUBSET Hashes}

\* The items sent: Ok((start, declared)) and Err(e) by expected_declarations_stream,
\* ExpectedDeclarations { block_number, classes } (here with the tag Ok) by spawn.
SourceOk(block_number, cls) ==
  [tag |-> "Ok", block_number |-> block_number, classes |-> cls, error |-> ""]
SourceErr(error) ==
  [tag |-> "Err", block_number |-> 0, classes |-> {}, error |-> error]

\* declared_classes_at(start) with its two contexts: `failure` tells whether the
\* query fails.
DeclaredClassesAt(storage, block_number, failure) ==
  IF failure = "query" THEN SourceErr("Querying declared classes at block")
  ELSE IF ~storage[block_number].found THEN SourceErr("Block header not found")
  ELSE SourceOk(block_number, storage[block_number].classes)

\* Mutant of StreamIteration: an empty set is sent too.
StreamIteration_SendEmpty(result) ==
  LET is_err == result.tag = "Err"
  IN [send |-> TRUE, return |-> is_err, failed |-> FALSE]

\* Mutant of StreamIteration: the loop goes on after an error.
StreamIteration_NoReturn(result) ==
  LET is_err == result.tag = "Err"
      is_empty == IF is_err THEN FALSE ELSE result.classes = {}
  IN [send |-> ~is_empty, return |-> FALSE, failed |-> FALSE]

\* What an iteration of the loop of expected_declarations_stream does with `res`.
StreamIteration(result) ==
  LET is_err == result.tag = "Err"
      is_empty == IF is_err THEN FALSE ELSE result.classes = {}
  IN [send |-> ~is_empty, return |-> is_err, failed |-> FALSE]

\* Mutant of SpawnIteration: a block without a header is passed over.
SpawnIteration_SkipMissing(result) ==
  IF result.tag = "Err"
  THEN IF result.error = "Block header not found"
       THEN [send |-> FALSE, return |-> FALSE, failed |-> FALSE]
       ELSE [send |-> FALSE, return |-> TRUE, failed |-> TRUE]
  ELSE [send |-> result.classes # {}, return |-> FALSE, failed |-> FALSE]

\* What an iteration of the loop of spawn does: `?` returns the error from the
\* closure, and nothing is sent.
SpawnIteration(result) ==
  IF result.tag = "Err" THEN [send |-> FALSE, return |-> TRUE, failed |-> TRUE]
  ELSE [send |-> result.classes # {}, return |-> FALSE, failed |-> FALSE]

\* The blocking task starts: the connection and the transaction.
SourceBegin(f) ==
  /\ task[f] = "spawned"
  /\ \E failure \in {"none", "connection", "transaction"} :
       IF failure = "none" \/ (f = "spawn" /\ failure = "connection")
       THEN /\ task' = [task EXCEPT ![f] = "running"]
            /\ UNCHANGED channel
       ELSE IF f = "stream"
         THEN /\ channel' = [channel EXCEPT ![f] = Append(@, SourceErr(
                   IF failure = "connection" THEN "Creating database connection"
                   ELSE "Creating database transaction"))]
              /\ task' = [task EXCEPT ![f] = "returned"]
         ELSE /\ task' = [task EXCEPT ![f] = "failed"]
              /\ UNCHANGED channel
  /\ UNCHANGED <<headers, inStart, stop, start>>
  /\ UNCHANGED <<matcherVars, stageVars, persistVars, storeVars, poolVars, callVars,
                 hashesVars, routerVars>>

\* One test of `while start <= stop` and, when it holds, one iteration.
SourceStep(f) ==
  /\ task[f] = "running"
  /\ IF start[f] > stop
     THEN /\ task' = [task EXCEPT ![f] = "returned"]
          /\ UNCHANGED <<start, channel>>
     ELSE \E failure \in {"none", "query"} :
            LET result == DeclaredClassesAt(headers, start[f], failure)
                it == IF f = "stream" THEN StreamIteration(result)
                      ELSE SpawnIteration(result)
            IN /\ channel' = IF it.send THEN [channel EXCEPT ![f] = Append(@, result)]
                             ELSE channel
               /\ IF it.return
                  THEN /\ task' = [task EXCEPT ![f] = IF it.failed THEN "failed"
                                                      ELSE "returned"]
                       /\ UNCHANGED start
                  ELSE /\ start' = [start EXCEPT ![f] = @ + 1]
                       /\ UNCHANGED task
  /\ UNCHANGED <<headers, inStart, stop>>
  /\ UNCHANGED <<matcherVars, stageVars, persistVars, storeVars, poolVars, callVars,
                 hashesVars, routerVars>>

\* Any storage and any range of blocks, `start > stop` included.
SourceInit ==
  /\ headers \in [1..MaxBlock -> Headers]
  /\ inStart \in 1..MaxBlock
  /\ stop \in 0..MaxBlock
  /\ start = [f \in Forms |-> inStart]
  /\ channel = [f \in Forms |-> <<>>]
  /\ task = [f \in Forms |-> "spawned"]

\* ------------------- ExpectedDeclarationsSource::spawn feeding VerifyDeclaredAt

\* The classes given to the stage: of any block of the chain.
FeedClasses == [block_number : 1..MaxBlock, hash : Hashes]

\* The items of the channel of spawn that the stage has received: the items come
\* in ascending block order, and self.current is the item received last.
ReceivedCount ==
  Cardinality({i \in 1..Len(channel["spawn"]) :
                 channel["spawn"][i].block_number <= current[1].block_number})

\* The items in the channel, as the receiver sees them.
InChannel ==
  [i \in 1..(Len(channel["spawn"]) - ReceivedCount) |->
     ExpectedDeclarations(channel["spawn"][ReceivedCount + i].block_number,
                          channel["spawn"][ReceivedCount + i].classes)]

\* The task has ended and dropped tx.
ChannelClosed == task["spawn"] \in {"returned", "failed"}

\* A step of the task of spawn; `mpsc::channel(1)`: blocking_send waits while the
\* channel holds an item.
FeedProduce ==
  /\ \/ SourceBegin("spawn")
     \/ SourceStep("spawn")
  /\ channel' # channel => InChannel = <<>>

\* VerifyDeclaredAt::map on any class: blocking_recv returns when the channel
\* holds an item or is closed. The stage is not called again once it has returned
\* an error; what its earlier calls returned is forgotten.
FeedMap ==
  /\ IF results[1] = <<>> THEN TRUE ELSE results[1][1].tag = "Ok"
  /\ IF current[1].classes = {} /\ InChannel = <<>> THEN ChannelClosed ELSE TRUE
  /\ \E input \in FeedClasses :
       LET m == MapDeclaredAt(current[1], InChannel, input)
       IN /\ results' = [results EXCEPT ![1] = <<m.result>>]
          /\ current' = [current EXCEPT ![1] = m.current]
  /\ UNCHANGED <<expectation_source, stage_input>>
  /\ UNCHANGED <<matcherVars, persistVars, extraVars>>

\* ---------------------------------------------------- VerifyClassHashes::map

\* The number of items of the declarations stream.
MaxDeclarations == 2

\* DeclaredClasses { cairo, sierra }: a set of class hashes and a map from Sierra
\* hashes to casm hashes; a hash is declared as one variant at most.
DeclaredClassesValues ==
  {[cairo |-> cairo, sierra |-> sierra] :
     cairo \in SUBSET Hashes,
     sierra \in UNION {[keys -> CasmHashValues] : keys \in SUBSET Hashes}}

DeclaredClassesItems ==
  {d \in DeclaredClassesValues : d.cairo \cap DOMAIN d.sierra = {}}

\* The classes of the batches given to VerifyClassHashes.
HashesClasses == StoreClasses

HashesOk(input) == [tag |-> "Ok", value |-> input, error |-> ""]
HashesErr(error) == [tag |-> "Err", value |-> <<>>, error |-> error]
HashesNone == [tag |-> "None", value |-> <<>>, error |-> ""]

\* How many times each identifier occurs in the list `missing`.
NoMissing == [h \in Hashes \cup CasmHashValues |-> 0]

\* The `for class in input.iter()` loop from the element at position i on:
\* `found` is FALSE when a remove found nothing.
RECURSIVE RemoveDeclared(_, _, _)
RemoveDeclared(declared_classes, input, i) ==
  IF i > Len(input) THEN [found |-> TRUE, declared_classes |-> declared_classes]
  ELSE LET class == input[i]
       IN IF class.variant = "Cairo"
          THEN IF class.hash \in declared_classes.cairo
               THEN RemoveDeclared(
                      [declared_classes EXCEPT !.cairo = @ \ {class.hash}], input, i + 1)
               ELSE [found |-> FALSE, declared_classes |-> declared_classes]
          ELSE IF class.hash \in DOMAIN declared_classes.sierra
               THEN RemoveDeclared(
                      [declared_classes EXCEPT !.sierra =
                         [h \in (DOMAIN @) \ {class.hash} |-> @[h]]], input, i + 1)
               ELSE [found |-> FALSE, declared_classes |-> declared_classes]

\* The list `missing`: the Cairo hashes left, chained with the values left in the
\* Sierra map.
Missing(declared_classes) ==
  [h \in Hashes \cup CasmHashValues |->
     (IF h \in declared_classes.cairo THEN 1 ELSE 0)
     + Cardinality({k \in DOMAIN declared_classes.sierra : declared_classes.sierra[k] = h})]

\* Mutant of VerifyClassHashes: declared classes left unmatched are accepted.
VerifyClassHashes_IgnoreLeft(declared_classes, input) ==
  LET r == RemoveDeclared(declared_classes, input, 1)
  IN IF ~r.found
     THEN [result |-> HashesErr("ClassDefinitionsDeclarationsMismatch"),
           missing |-> NoMissing]
     ELSE [result |-> HashesOk(input), missing |-> NoMissing]

\* The body of map once the stream has yielded `declared_classes`.
VerifyClassHashes(declared_classes, input) ==
  LET r == RemoveDeclared(declared_classes, input, 1)
  IN IF ~r.found
     THEN [result |-> HashesErr("ClassDefinitionsDeclarationsMismatch"),
           missing |-> NoMissing]
     ELSE IF r.declared_classes.cairo = {} /\ DOMAIN r.declared_classes.sierra = {}
       THEN [result |-> HashesOk(input), missing |-> NoMissing]
       ELSE [result |-> HashesErr("ClassDefinitionsDeclarationsMismatch"),
             missing |-> Missing(r.declared_classes)]

\* Mutant of VerifyClassHashesMap: an item that gave a mismatch is kept for the
\* next call.
VerifyClassHashesMap_KeepOnMismatch ==
  /\ \E input \in SeqsUpTo(HashesClasses, MaxBatch) :
       /\ hashes_input' = input
       /\ IF declarations = <<>>
          THEN /\ hashes_result' = HashesErr("Getting declared classes")
               /\ missing' = NoMissing
               /\ UNCHANGED declarations
          ELSE LET v == VerifyClassHashes(Head(declarations), input)
               IN /\ hashes_result' = v.result
                  /\ missing' = v.missing
                  /\ declarations' = IF v.result.tag = "Ok" THEN Tail(declarations)
                                     ELSE declarations
  /\ UNCHANGED <<matcherVars, stageVars, persistVars, storeVars, poolVars, callVars,
                 sourceVars, routerVars>>

\* VerifyClassHashes::map on any batch: it takes the next item of the stream, and
\* fails when the stream has ended.
VerifyClassHashesMap ==
  /\ \E input \in SeqsUpTo(HashesClasses, MaxBatch) :
       /\ hashes_input' = input
       /\ IF declarations = <<>>
          THEN /\ hashes_result' = HashesErr("Getting declared classes")
               /\ missing' = NoMissing
               /\ UNCHANGED declarations
          ELSE LET v == VerifyClassHashes(Head(declarations), input)
               IN /\ hashes_result' = v.result
                  /\ missing' = v.missing
                  /\ declarations' = Tail(declarations)
  /\ UNCHANGED <<matcherVars, stageVars, persistVars, storeVars, poolVars, callVars,
                 sourceVars, routerVars>>

HashesInit ==
  /\ declarations \in SeqsUpTo(DeclaredClassesItems, MaxDeclarations)
  /\ hashes_input = <<>>
  /\ hashes_result = HashesNone
  /\ missing = NoMissing

\* ---------------------------------------------------------- specification

ExtraIdle == StoreIdle /\ PoolIdle /\ CallIdle /\ HashesIdle /\ SourceIdle /\ RouterIdle

vars == <<matcherVars, stageVars, persistVars, extraVars>>

StreamNext ==
  \E r \in Runs :
    \/ NextExpected(r)
    \/ BreakOnEmpty(r)
    \/ PullClass(r)
    \/ Send(r)

MatcherNext ==
  \/ StreamNext
  \/ \E r \in Runs : VerifyDeclaredAtMap(r)

\* One run of verify_declared_at and of VerifyDeclaredAt on any input.
Init == OneRunInputs /\ MatcherInit /\ StageInit /\ PersistIdle /\ ExtraIdle
Next == MatcherNext
Spec == Init /\ [][Next]_vars

\* Two runs of verify_declared_at on the same classes cut into chunks in two ways.
InitChunkings == ChunkingInputs /\ MatcherInit /\ StageInit /\ PersistIdle /\ ExtraIdle
SpecChunkings == InitChunkings /\ [][StreamNext]_vars

\* Two runs of both forms on expectation streams with and without empty items.
InitEmptyBlocks == EmptyBlockInputs /\ MatcherInit /\ StageInit /\ PersistIdle /\ ExtraIdle
SpecEmptyBlocks == InitEmptyBlocks /\ [][Next]_vars

\* One run whose consumer may drop the output stream at any moment.
NextCancel ==
  \/ MatcherNext
  \/ \E r \in Runs : DropReceiver(r)
SpecCancel == Init /\ [][NextCancel]_vars

\* One run whose consumer keeps receiving: the runtime polls the task of
\* verify_declared_at whenever it can take a step.
SpecTermination == Init /\ [][StreamNext]_vars /\ WF_vars(StreamNext)

\* One call of persist on any batch and any database.
InitPersist == NoInputs /\ MatcherInit /\ StageInit /\ PersistInit /\ ExtraIdle
NextPersist ==
  \/ PersistBegin
  \/ PersistClass
  \/ PersistCommit
SpecPersist == InitPersist /\ [][NextPersist]_vars

\* Any sequence of calls of persist and of Store::map on one database, while the
\* block-header pipeline adds casm-hash mappings.
InitStore ==
  /\ NoInputs /\ MatcherInit /\ StageInit /\ StoreInit
  /\ PoolIdle /\ CallIdle /\ HashesIdle /\ SourceIdle /\ RouterIdle
NextStore ==
  \/ PersistCall
  \/ PersistBegin
  \/ PersistClass
  \/ PersistCommit
  \/ StoreMap
  \/ InsertCasmHash
SpecStore == InitStore /\ [][NextStore]_vars


\* Two calls at the same time of one of the hashing and compiling functions.
InitPool ==
  /\ NoInputs /\ MatcherInit /\ StageInit /\ PersistIdle
  /\ StoreIdle /\ PoolInit /\ CallIdle /\ HashesIdle /\ SourceIdle /\ RouterIdle
NextPool ==
  \E c \in Calls :
    \/ Work(c)
    \/ Return(c)
SpecPool == InitPool /\ [][NextPool]_vars

\* Calls of the functions that keep no state, on any arguments.
InitCalls ==
  /\ NoInputs /\ MatcherInit /\ StageInit /\ PersistIdle
  /\ StoreIdle /\ PoolIdle /\ CallInit /\ HashesIdle /\ SourceIdle /\ RouterIdle
NextCalls ==
  \/ VerifyLayoutCall
  \/ NextMissingCall
  \/ SerializeCall
SpecCalls == InitCalls /\ [][NextCalls]_vars

\* The v0.8 router is built and then serves requests.
InitRouter ==
  /\ NoInputs /\ MatcherInit /\ StageInit /\ PersistIdle
  /\ StoreIdle /\ PoolIdle /\ CallIdle /\ HashesIdle /\ SourceIdle /\ RouterInit
NextRouter ==
  \/ Register
  \/ Serve
SpecRouter == InitRouter /\ [][NextRouter]_vars

\* One task of expected_declarations_stream and one of spawn, whose consumers
\* receive every item.
InitSource ==
  /\ NoInputs /\ MatcherInit /\ StageInit /\ PersistIdle
  /\ StoreIdle /\ PoolIdle /\ CallIdle /\ HashesIdle /\ SourceInit /\ RouterIdle
NextSource ==
  \E f \in Forms :
    \/ SourceBegin(f)
    \/ SourceStep(f)
SpecSource == InitSource /\ [][NextSource]_vars

\* The task of spawn on any storage and any range, and calls of
\* VerifyDeclaredAt::map that receive from its channel.
NextFeed ==
  \/ FeedProduce
  \/ FeedMap
SpecFeed == InitSource /\ [][NextFeed]_vars

\* Calls of VerifyClassHashes::map on any batches, for any declarations stream.
InitHashes ==
  /\ NoInputs /\ MatcherInit /\ StageInit /\ PersistIdle
  /\ StoreIdle /\ PoolIdle /\ CallIdle /\ HashesInit /\ SourceIdle /\ RouterIdle
NextHashes == VerifyClassHashesMap
SpecHashes == InitHashes /\ [][NextHashes]_vars

\* ------------------------------------------------------------------ claims

OkOut(r) == SelectSeq(out[r], LAMBDA x : x.tag = "Ok")
ErrOut(r) == SelectSeq(out[r], LAMBDA x : x.tag = "Err")

\* Every class of a peer stream, in arrival order.
RECURSIVE AllClasses(_)
AllClasses(h) ==
  IF h = <<>> THEN <<>>
  ELSE (IF Head(h).tag = "Err" THEN <<>> ELSE Head(h).chunk) \o AllClasses(Tail(h))

DeclaredIn(e, block_number, hash) ==
  \E j \in 1..Len(e) :
    /\ e[j].tag = "Ok"
    /\ e[j].block_number = block_number
    /\ hash \in e[j].classes

\* C1: every class that verify_declared_at emits as Ok has the block number of
\* some item of E and a hash in that item's set.
C1_OkIsDeclared ==
  \A r \in Runs : \A i \in 1..Len(out[r]) :
    out[r][i].tag = "Ok" => DeclaredIn(inE[r], out[r][i].block_number, out[r][i].hash)

\* A class was emitted as Ok although E declares its hash at another block too.
C1_Witness ==
  \E r \in Runs :
    /\ Len(OkOut(r)) = 2
    /\ \E j \in 1..Len(inE[r]) :
         inE[r][j].tag = "Ok" /\ inE[r][j].block_number # out[r][1].block_number
           /\ out[r][1].hash \in inE[r][j].classes

\* C2: when the output ends without an error item, every class of the chunks
\* of H has been emitted as Ok.
C2_NoClassDropped ==
  \A r \in Runs :
    (pc[r] = "done" /\ ErrOut(r) = <<>>) =>
      \A i \in 1..Len(AllClasses(inH[r])) :
        \E k \in 1..Len(out[r]) : out[r][k] = OkItem(AllClasses(inH[r])[i])

\* C3: the items emitted are the same for every way of cutting the same classes
\* into chunks.
C3_DechunkerInvariance ==
  (/\ \A r \in Runs : Returned(r)
   /\ inE[1] = inE[2]
   /\ Flatten(inH[1]) = Flatten(inH[2]))
  => out[1] = out[2]

\* One chunk held the last class of one block and the first class of the next, the
\* other run received them in two chunks, and both classes were emitted.
C3_Witness ==
  /\ \A r \in Runs : Returned(r)
  /\ inE[1] = inE[2]
  /\ Len(inH[1]) = 1 /\ Len(inH[2]) = 2
  /\ Len(OkOut(1)) = 2
  /\ out[1][1].block_number # out[1][2].block_number

Ascending(e) ==
  \A i, j \in 1..Len(e) :
    (i < j /\ e[i].tag = "Ok" /\ e[j].tag = "Ok") => e[i].block_number < e[j].block_number

\* C4: when E is ascending by block number, the Ok items are in non-decreasing
\* block-number order and are a prefix of the concatenation of H's chunks.
C4_Ordering ==
  \A r \in Runs :
    Ascending(inE[r]) =>
      /\ \A i, j \in 1..Len(OkOut(r)) :
           i < j => OkOut(r)[i].block_number <= OkOut(r)[j].block_number
      /\ Len(OkOut(r)) <= Len(AllClasses(inH[r]))
      /\ \A i \in 1..Len(OkOut(r)) : OkOut(r)[i] = OkItem(AllClasses(inH[r])[i])

C4_Witness ==
  \E r \in Runs :
    /\ Ascending(inE[r])
    /\ Len(inH[r]) = 1
    /\ Len(OkOut(r)) = 2
    /\ OkOut(r)[1].block_number = OkOut(r)[2].block_number

\* C5: expectation streams that differ only by items with an empty class set
\* give the same items from verify_declared_at and the same results from
\* VerifyDeclaredAt::map.
C5_EmptyBlockTolerance ==
  (inH[1] = inH[2] /\ SkipEmpty(inE[1]) = SkipEmpty(inE[2])) =>
    /\ (\A r \in Runs : Returned(r)) => out[1] = out[2]
    /\ (\A r \in Runs : StageEnded(r)) => results[1] = results[2]

\* Run 2 read an empty item before a non-empty one, run 1 did not, and a class
\* was accepted in both forms.
C5_Witness ==
  /\ inH[1] = inH[2]
  /\ inE[1] # inE[2]
  /\ Len(inE[2]) = 2 /\ inE[2][1].tag = "Ok" /\ inE[2][1].classes = {}
  /\ \A r \in Runs : Returned(r) /\ StageEnded(r)
  /\ OkOut(2) # <<>>
  /\ results[2] # <<>> /\ results[2][1].tag = "Ok"

\* The items of H pulled from the dechunker so far.
Pulled(r) == Len(Flatten(inH[r])) - Len(Flatten(classes[r])) - Len(dechunker[r])

\* C6: an error item is the last item of the output and the function has
\* returned after it; every item pulled before it was sent.
C6_ErrorTerminal ==
  \A r \in Runs :
    /\ \A i \in 1..Len(out[r]) :
         out[r][i].tag = "Err" => (i = Len(out[r]) /\ pc[r] = "done")
    /\ Len(ErrOut(r)) <= 1
    /\ pc[r] # "panicked" =>
         Len(out[r]) + (IF pc[r] = "send" THEN 1 ELSE 0) = Pulled(r)

C6_Witness ==
  \E r \in Runs :
    /\ Len(out[r]) = 2
    /\ out[r][1].tag = "Ok"
    /\ out[r][2].tag = "Err"
    /\ pc[r] = "done"
    /\ expected_declarations[r] # <<>>

\* C7: a class c pulled from the dechunker gives UnexpectedClass exactly when
\* its block number differs from the block of the current expected entry or its
\* hash is not in the remaining set; the error carries c's own peer tag, and
\* it is the item sent next.
C7_UnexpectedClass ==
  [][\A r \in Runs :
       /\ (pc[r] = "loop" /\ pc'[r] = "send") =>
            LET n == DechunkerNext(dechunker[r], classes[r])
            IN n.item.tag = "Ok" =>
                 /\ (res'[r].tag = "Err") <=>
                      (\/ n.item.class.block_number # declared_at[r]
                       \/ n.item.class.hash \notin declared[r])
                 /\ res'[r].tag = "Err" => res'[r] = UnexpectedClass(n.item.class.peer)
       /\ (pc[r] = "send" /\ pc'[r] \in {"loop", "done"}) =>
            out'[r] = Append(out[r], res[r])
    ]_vars

\* The second class of a chunk was rejected and the error carries its peer tag.
C7_Witness ==
  \E r \in Runs :
    /\ Len(inH[r]) = 1
    /\ Len(out[r]) = 2
    /\ out[r][1].tag = "Ok"
    /\ out[r][2] = UnexpectedClass(2)
    /\ inH[r][1].chunk[2].block_number = declared_at[r]

\* C8: when the peer stream ends while the expected set still has unmatched
\* identifiers, the output ends without an error item.
C8_SilentEnd ==
  [][\A r \in Runs :
       (/\ pc[r] = "loop"
        /\ declared[r] # {}
        /\ DechunkerNext(dechunker[r], classes[r]).item.tag = "None"
        /\ pc'[r] # pc[r])
       => (pc'[r] = "done" /\ out'[r] = out[r] /\ ErrOut(r) = <<>>)
    ]_vars

\* The peer stream ended after a class was matched, with an identifier of the
\* current set unmatched and a later item of E pending.
C8_Witness ==
  \E r \in Runs :
    /\ pc[r] = "done"
    /\ declared[r] # {}
    /\ classes[r] = <<>> /\ dechunker[r] = <<>>
    /\ expected_declarations[r] # <<>>
    /\ Len(OkOut(r)) = 1
    /\ ErrOut(r) = <<>>

\* C9: when the receiving end of the output channel is dropped,
\* verify_declared_at terminates without panicking.
C9_CleanCancellation ==
  \A r \in Runs : rx[r] = "dropped" => pc[r] # "panicked"

\* The database with the write of one batch element applied, whatever it held.
WrittenClass(db, class) ==
  IF class.variant = "Cairo"
  THEN UpdateCairoClass(db, class.hash, class.definition)
  ELSE UpdateSierraClass(db, class.hash, class.definition, CasmHash(db, class.hash),
                         class.casm_definition)

RECURSIVE WrittenBatch(_, _)
WrittenBatch(db, batch) ==
  IF batch = <<>> THEN db
  ELSE WrittenBatch(WrittenClass(db, Head(batch)), Tail(batch))

\* C10: unless persist has returned Ok the database equals the database before
\* the call, in particular when the k-th element failed; when it has returned Ok
\* the database holds the writes of every element of the batch.
C10_Atomicity ==
  /\ (persist_pc \in {"call", "loop"} \/ persist_result.tag = "Err")
       => database = inDatabase
  /\ persist_result.tag = "Ok"
       => (persist_pc = "returned" /\ database = WrittenBatch(inDatabase, inClasses))

\* The second element failed on a missing casm-hash mapping after the write of
\* the first element had changed the transaction's view.
C10_Witness ==
  /\ persist_pc = "returned"
  /\ persist_result = PersistErr("Casm hash not found", 2)
  /\ WrittenClass(inDatabase, inClasses[1]) # inDatabase

\* The highest block number among the classes of a batch.
HighestBlock(batch) ==
  CHOOSE b \in {batch[i].block_number : i \in 1..Len(batch)} :
    \A i \in 1..Len(batch) : batch[i].block_number <= b

\* C11: when persist returns Ok on a non-empty batch, the block number it returns
\* is the highest block number among the classes of the batch, whatever the order
\* of the block numbers inside the batch.
C11_ReturnsHighestBlock ==
  (persist_result.tag = "Ok" /\ inClasses # <<>>)
    => persist_result.block_number = HighestBlock(inClasses)

\* The element of the batch that persist's loop is at.
PersistAt == Len(inClasses) - Len(persist_classes) + 1

\* Every Sierra body in the database carries the casm hash mapped to its class hash.
SierraRowsMapped ==
  \A h \in Hashes :
    database.rows[h].variant = "Sierra" =>
      /\ database.casm_hashes[h] # NoCasmHash
      /\ database.rows[h].casm_hash = database.casm_hashes[h]

\* A call of Store::map on a Sierra class: without a mapping it fails and writes
\* nothing; a write is made with the mapped casm hash.
StoreStepMapped ==
  (store_input' # store_input \/ store_result' # store_result) =>
    /\ (store_input'.variant = "Sierra"
          /\ database.casm_hashes[store_input'.hash] = NoCasmHash) =>
         /\ store_result'.tag = "Err"
         /\ store_result'.error \in
              {"Casm hash not found", "Creating database transaction",
               "Getting casm hash for sierra class"}
         /\ database' = database
    /\ (store_input'.variant = "Sierra" /\ database'.rows # database.rows) =>
         /\ database.casm_hashes[store_input'.hash] # NoCasmHash
         /\ database'.rows[store_input'.hash].casm_hash
              = database.casm_hashes[store_input'.hash]

\* An iteration of persist's loop on a Sierra class, in the same two cases.
PersistStepMapped ==
  /\ (/\ persist_pc = "loop" /\ persist_classes # <<>>
      /\ Head(persist_classes).variant = "Sierra"
      /\ transaction.view.casm_hashes[Head(persist_classes).hash] = NoCasmHash
      /\ persist_pc' # persist_pc) =>
       /\ persist_result'.tag = "Err"
       /\ persist_result'.error \in
            {"Casm hash not found", "Getting casm hash for sierra class"}
       /\ persist_result'.at = PersistAt
       /\ database' = inDatabase
  /\ (/\ persist_pc = "loop" /\ transaction'.open
      /\ transaction'.view.rows # transaction.view.rows
      /\ Head(persist_classes).variant = "Sierra") =>
       /\ transaction.view.casm_hashes[Head(persist_classes).hash] # NoCasmHash
       /\ transaction'.view.rows[Head(persist_classes).hash].casm_hash
            = transaction.view.casm_hashes[Head(persist_classes).hash]

\* C12: every Sierra class body in the database is stored with the casm hash that
\* the class-hash to casm-hash mapping gives for its class hash, and each write of
\* a Sierra body by persist or by Store::map is made when that mapping exists;
\* when the mapping is absent the call fails with "Casm hash not found", unless a
\* storage step failed before, and writes nothing.
C12_SierraNeedsCasmHash ==
  []SierraRowsMapped /\ [][StoreStepMapped /\ PersistStepMapped]_vars

\* Store::map has stored a Sierra class with the casm hash "d" that the mapping
\* gives for its class hash, over a legacy body stored under the same hash.
C12_Witness ==
  /\ store_result.tag = "Ok"
  /\ store_input.variant = "Sierra"
  /\ database.rows[store_input.hash].variant = "Sierra"
  /\ database.rows[store_input.hash].casm_hash = "d"
  /\ \E h \in Hashes : database.casm_hashes[h] = "c"

\* C13: in both compiler forms a Cairo class comes out with its bytes unchanged; a
\* Sierra class comes out with the local compiler's result when the local
\* compilation succeeds, otherwise with the gateway's casm for its class hash and
\* the Sierra bytes unchanged; the compilation of a class fails only when the
\* local compilation and the gateway request have both failed, and a call fails
\* only then; block number and class hash are unchanged.
C13_CompilerPolicy ==
  pool_fn \in CompileFns =>
    \A c \in Calls :
      /\ \A i \in DOMAIN slots[c] :
           slots[c][i].done =>
             LET class == peer_data[c][i].data
                 r == slots[c][i].result
                 local == CompileToCasm(class.definition)
             IN /\ r.tag \in {"Ok", "Err"}
                /\ r.tag = "Ok" =>
                     /\ r.value.block_number = class.block_number
                     /\ r.value.hash = class.hash
                     /\ r.value.variant = class.variant
                     /\ r.value.definition = class.definition
                     /\ r.value.casm_definition =
                          (IF class.variant = "Cairo" THEN ""
                           ELSE IF local.ok THEN local.casm
                           ELSE GatewayCasm(class.hash))
                /\ r.tag = "Err" =>
                     /\ class.variant = "Sierra"
                     /\ ~local.ok
                     /\ slots[c][i].fetched = <<class.hash>>
                /\ (class.variant = "Cairo" \/ local.ok) => r.tag = "Ok"
      /\ pool_result[c].tag \in {"None", "Ok", "Err"}
      /\ pool_result[c].tag = "Err" =>
           \E i \in DOMAIN slots[c] : pool_result[c] = slots[c][i].result
      /\ pool_result[c].tag = "Ok" =>
           \A i \in DOMAIN slots[c] : pool_result[c].value[i] = slots[c][i].result.value

\* A batch came out with the gateway's casm for its first class, whose local
\* compilation failed, and the local compiler's result for its second class.
C13_Witness ==
  /\ pool_fn = "compile_sierra_to_casm_or_fetch"
  /\ pool_result[1].tag = "Ok"
  /\ Len(pool_result[1].value) = 2
  /\ pool_result[1].value[1].casm_definition = GatewayCasm("A")
  /\ pool_result[1].value[2].casm_definition = "k"
  /\ pool_result[2].tag = "Err"

\* C14: a successful result of compute_hash or of compile_sierra_to_casm_or_fetch
\* has as many elements as the input batch, and its i-th element carries the peer,
\* the block number and the definition bytes of the i-th input element, in
\* whatever order the workers ran; no element comes from the batch of another call.
C14_BatchOrder ==
  pool_fn \in BatchFns =>
    \A c \in Calls :
      pool_result[c].tag = "Ok" =>
        /\ Len(pool_result[c].value) = Len(peer_data[c])
        /\ \A i \in 1..Len(peer_data[c]) :
             /\ pool_result[c].value[i].peer = peer_data[c][i].peer
             /\ pool_result[c].value[i].block_number = peer_data[c][i].data.block_number
             /\ pool_result[c].value[i].definition = peer_data[c][i].data.definition

\* The second element of a batch was finished first, then the element of the
\* other call, then the first element, and both calls returned Ok.
C14_Witness ==
  /\ pool_fn \in BatchFns
  /\ pool_result[1].tag = "Ok" /\ pool_result[2].tag = "Ok"
  /\ Len(peer_data[1]) = 2 /\ Len(peer_data[2]) = 1
  /\ slots[1][2].stamp < slots[2][1].stamp
  /\ slots[2][1].stamp < slots[1][1].stamp
  /\ peer_data[1][1].data.block_number # peer_data[1][2].data.block_number

\* C15: when the hash of a class cannot be computed, compute_hash and
\* compute_hash0 return an error, without panicking, that carries the peer of
\* that class.
C15_HashErrorCarriesPeer ==
  pool_fn \in {"compute_hash", "compute_hash0"} =>
    \A c \in Calls :
      /\ pool_result[c].tag # "Panic"
      /\ pool_result[c].tag = "Err" =>
           \E i \in 1..Len(peer_data[c]) :
             /\ peer_data[c][i].data.layout = Malformed
             /\ pool_result[c].peer = peer_data[c][i].peer

\* C16: verify_layout returns BadClassLayout with the peer of its input exactly
\* when the blob does not parse as the variant of its transport tag; otherwise it
\* returns a parsed class of that variant with the same peer, block number and
\* definition bytes.
C16_LayoutByTag ==
  call.fn = "verify_layout" =>
    /\ ret.tag \in {"Ok", "Err"}
    /\ ret.tag = "Err" <=> ~ParsesAs(call.peer_data.definition, call.peer_data.variant)
    /\ ret.tag = "Err" => ret = BadClassLayout(call.peer_data.peer)
    /\ ret.tag = "Ok" =>
         /\ ret.peer = call.peer_data.peer
         /\ ret.block_number = call.peer_data.block_number
         /\ ret.variant = call.peer_data.variant
         /\ ret.layout = call.peer_data.variant
         /\ ret.definition = call.peer_data.definition

\* A blob tagged Sierra that parses as Cairo only was refused with the peer 2.
C16_Witness ==
  /\ call.fn = "verify_layout"
  /\ call.peer_data.variant = "Sierra"
  /\ call.peer_data.definition = "cairo"
  /\ ret = BadClassLayout(2)

\* C17: next_missing(head) returns Some(n) exactly when no storage step fails and
\* some block up to head misses a class definition, n being the lowest block that
\* misses one; it returns None when no block misses one or the lowest is above
\* head; it returns an error exactly when a storage step fails.
C17_NextMissing ==
  call.fn = "next_missing" =>
    LET below == {b \in call.missing_blocks : b <= call.head}
    IN /\ ret.tag = "Err" <=> call.failure # "none"
       /\ (ret.tag = "Ok" /\ ret.some) <=> (call.failure = "none" /\ below # {})
       /\ (ret.tag = "Ok" /\ ret.some) =>
            /\ ret.block \in call.missing_blocks
            /\ \A b \in call.missing_blocks : ret.block <= b
       /\ (call.failure = "none" /\ below = {}) => ret = NextMissingNone

\* The lowest block that misses a definition is the head itself, other blocks
\* above it miss one too, and next_missing returned it.
C17_Witness ==
  /\ call.fn = "next_missing"
  /\ call.head \in call.missing_blocks
  /\ call.head + 1 \in call.missing_blocks
  /\ ret = NextMissingSome(call.head)
  /\ call.head > 0

\* The items for the blocks of [from, to] that declare a class, in ascending order.
RECURSIVE DeclaredItems(_, _, _)
DeclaredItems(storage, from, to) ==
  IF from > to THEN <<>>
  ELSE DeclaredItems(storage, from, to - 1)
         \o (IF storage[to].found /\ storage[to].classes # {}
             THEN <<SourceOk(to, storage[to].classes)>> ELSE <<>>)

AllHeadersExist == \A b \in inStart..stop : headers[b].found

IsPrefix(p, q) == Len(p) <= Len(q) /\ \A i \in 1..Len(p) : p[i] = q[i]

OkItems(ch) == SelectSeq(ch, LAMBDA x : x.tag = "Ok")

\* A storage step of the task failed.
SourceFailed(f) ==
  \/ task[f] = "failed"
  \/ channel[f] # <<>> /\ channel[f][Len(channel[f])].tag = "Err"

\* C18: when every header of [start, stop] exists, both forms send, in ascending
\* block order, one item with the declared set for each block of the range that
\* declares a class, no item with an empty set, and then end (unless a storage
\* step fails); for start > stop they send nothing.
C18_ExpectedDeclarations ==
  AllHeadersExist =>
    \A f \in Forms :
      /\ IsPrefix(OkItems(channel[f]), DeclaredItems(headers, inStart, stop))
      /\ \A i \in 1..Len(channel[f]) :
           channel[f][i].tag = "Ok" => channel[f][i].classes # {}
      /\ \A i, j \in 1..Len(channel[f]) :
           (i < j /\ channel[f][j].tag = "Ok") =>
             (channel[f][i].tag = "Ok"
                /\ channel[f][i].block_number < channel[f][j].block_number)
      /\ (task[f] = "returned" /\ ~SourceFailed(f)) =>
           channel[f] = DeclaredItems(headers, inStart, stop)
      /\ (inStart > stop /\ ~SourceFailed(f)) => channel[f] = <<>>

\* Both forms have ended after sending the items of the first and the last block
\* of a range whose middle block declares nothing.
C18_Witness ==
  /\ AllHeadersExist
  /\ inStart = 1 /\ stop = 3
  /\ headers[2].classes = {}
  /\ \A f \in Forms :
       /\ task[f] = "returned"
       /\ Len(channel[f]) = 2
       /\ channel[f][1].block_number = 1
       /\ channel[f][2].block_number = 3

\* C19: in expected_declarations_stream an error item is the last item and the
\* stream has ended after it; when the header of a block of [start, stop] is
\* missing, the stream ends with an error item at that block or at an earlier
\* block whose query failed, after the items of the blocks before it, and sends
\* no item for a later block.
C19_StreamErrorTerminal ==
  LET ch == channel["stream"]
      at == start["stream"]
  IN /\ \A i \in 1..Len(ch) :
          ch[i].tag = "Err" => (i = Len(ch) /\ task["stream"] = "returned")
     /\ (task["stream"] = "returned" /\ ~AllHeadersExist) =>
          /\ ch # <<>>
          /\ ch[Len(ch)].tag = "Err"
          /\ at \in inStart..stop
          /\ \A b \in inStart..(at - 1) : headers[b].found
          /\ SubSeq(ch, 1, Len(ch) - 1) = DeclaredItems(headers, inStart, at - 1)

\* The stream sent the item of block 1 and then the error for the missing header
\* of block 2, and ended although block 3 declares classes.
C19_Witness ==
  /\ inStart = 1 /\ stop = 3
  /\ ~headers[2].found
  /\ headers[3].found /\ headers[3].classes # {}
  /\ task["stream"] = "returned"
  /\ Len(channel["stream"]) = 2
  /\ channel["stream"][1].tag = "Ok"
  /\ channel["stream"][2] = SourceErr("Block header not found")

\* The hashes of the classes of one variant in a batch, and their number.
HashesOf(input, variant) ==
  {input[i].hash : i \in {j \in 1..Len(input) : input[j].variant = variant}}
CountOf(input, variant) ==
  Cardinality({j \in 1..Len(input) : input[j].variant = variant})

\* The batch delivers, without repetition, exactly the declared classes.
ExactlyDeclared(declared_classes, input) ==
  /\ HashesOf(input, "Cairo") = declared_classes.cairo
  /\ CountOf(input, "Cairo") = Cardinality(declared_classes.cairo)
  /\ HashesOf(input, "Sierra") = DOMAIN declared_classes.sierra
  /\ CountOf(input, "Sierra") = Cardinality(DOMAIN declared_classes.sierra)

\* C20: a call of VerifyClassHashes::map that takes an item of the declarations
\* stream returns Ok with its input unchanged exactly when the Cairo hashes of the
\* batch are, without repetition, the declared Cairo set and its Sierra hashes
\* are, without repetition, the keys of the declared Sierra map; otherwise it
\* returns ClassDefinitionsDeclarationsMismatch.
C20_ExactMatch ==
  [][declarations # <<>> =>
       /\ declarations' = Tail(declarations)
       /\ IF ExactlyDeclared(Head(declarations), hashes_input')
          THEN hashes_result' = HashesOk(hashes_input')
          ELSE hashes_result' = HashesErr("ClassDefinitionsDeclarationsMismatch")
    ]_vars

\* A batch of a Cairo class and a Sierra class was accepted against the last item
\* of the stream.
C20_Witness ==
  /\ declarations = <<>>
  /\ hashes_result = HashesOk(hashes_input)
  /\ Len(hashes_input) = 2
  /\ hashes_input[1].variant # hashes_input[2].variant

\* The list of the class hashes declared and matched by no class of the batch:
\* the Cairo hashes left and the keys left in the Sierra map.
UnmatchedClassHashes(declared_classes, input) ==
  [h \in Hashes \cup CasmHashValues |->
     IF h \in (declared_classes.cairo \ HashesOf(input, "Cairo"))
               \cup ((DOMAIN declared_classes.sierra) \ HashesOf(input, "Sierra"))
     THEN 1 ELSE 0]

\* C21: when every class of the batch was found and declared classes are left,
\* the list `missing` that goes with ClassDefinitionsDeclarationsMismatch holds
\* exactly the class hashes of the declared Cairo and Sierra classes that no
\* class of the batch matched.
C21_MissingListsClassHashes ==
  [][(/\ declarations # <<>>
      /\ RemoveDeclared(Head(declarations), hashes_input', 1).found
      /\ hashes_result' = HashesErr("ClassDefinitionsDeclarationsMismatch"))
       => missing' = UnmatchedClassHashes(Head(declarations), hashes_input')
    ]_vars

\* A name in upper snake case: every letter in upper case, and an underscore
\* before each upper-case letter of the name but its first.
IsUpper(c) == \E i \in DOMAIN UpperCase : UpperCase[i] = c
ToUpper(c) ==
  IF \E i \in DOMAIN LowerCase : LowerCase[i] = c
  THEN UpperCase[CHOOSE i \in DOMAIN LowerCase : LowerCase[i] = c]
  ELSE c
RECURSIVE UpperSnakeFrom(_, _)
UpperSnakeFrom(name, i) ==
  IF i > Len(name) THEN <<>>
  ELSE (IF i > 1 /\ IsUpper(name[i]) THEN <<"_">> ELSE <<>>)
       \o <<ToUpper(name[i])>> \o UpperSnakeFrom(name, i + 1)
UpperSnake(name) == UpperSnakeFrom(name, 1)

\* C22: every variant of TxnStatus, TxnFinalityStatus and TxnExecutionStatus
\* serializes to the JSON string of its name in upper snake case; the serializers
\* are total over the variants, and two distinct variants of one enum never
\* serialize to the same string.
C22_StatusStrings ==
  /\ call.fn = "serialize" => ret = JsonString(UpperSnake(call.status))
  /\ \A enum \in StatusEnums :
       \A v \in VariantsOf(enum), w \in VariantsOf(enum) :
         /\ SerializeStatus(enum, v).json = "string"
         /\ v # w => SerializeStatus(enum, v) # SerializeStatus(enum, w)

\* A finality status of two words and a digit was serialized.
C22_Witness ==
  /\ call.fn = "serialize"
  /\ call.enum = "TxnFinalityStatus"
  /\ call.status = AcceptedOnL1
  /\ ret.text = <<"A", "C", "C", "E", "P", "T", "E", "D", "_", "O", "N", "_", "L", "1">>

\* C23: in both compiler forms the gateway is asked for a class only when the
\* class is a Sierra class whose local compilation has failed, and then once,
\* for the hash of that class; it is asked neither for a Cairo class, nor for a
\* Sierra class that compiled locally, nor for a class not yet worked on.
C23_FetchOnlyAfterFailure ==
  pool_fn \in CompileFns =>
    \A c \in Calls :
      \A i \in DOMAIN slots[c] :
        LET class == peer_data[c][i].data
            local == CompileToCasm(class.definition)
        IN slots[c][i].fetched =
             (IF slots[c][i].done /\ class.variant = "Sierra" /\ ~local.ok
              THEN <<class.hash>> ELSE <<>>)

\* A batch of the parallel form: the gateway was asked for its first class, whose
\* local compilation had failed, and not for its second, a Sierra class that
\* compiled.
C23_Witness ==
  /\ pool_fn = "compile_sierra_to_casm_or_fetch"
  /\ Len(slots[1]) = 2
  /\ slots[1][1].done /\ slots[1][2].done
  /\ slots[1][1].fetched = <<peer_data[1][1].data.hash>>
  /\ peer_data[1][2].data.variant = "Sierra"
  /\ slots[1][2].fetched = <<>>
  /\ slots[1][2].result.value.casm_definition = "k"

\* The items of E that verify_declared_at has read, and the items the stage has
\* received from its channel.
DeliveredE(r) ==
  SubSeq(inE[r], 1, Len(inE[r]) - Len(expected_declarations[r]))
DeliveredSource(r) ==
  SubSeq(SourceOf(inE[r]), 1, Len(SourceOf(inE[r])) - Len(expectation_source[r]))

\* How many of the items declare hash h at block b, how many identifiers they
\* declare in all, and how many Ok results carry h at b.
TimesDeclared(items, b, h) ==
  Cardinality({j \in 1..Len(items) : items[j].block_number = b /\ h \in items[j].classes})
RECURSIVE Identifiers(_)
Identifiers(items) ==
  IF items = <<>> THEN 0
  ELSE Cardinality(Head(items).classes) + Identifiers(Tail(items))
TimesOk(items, b, h) ==
  Cardinality({i \in 1..Len(items) :
                 items[i].tag = "Ok" /\ items[i].block_number = b /\ items[i].hash = h})

\* Class k of the stream repeats the block number and the hash of class i.
SameClass(cls, i, k) ==
  /\ cls[i].block_number = cls[k].block_number
  /\ cls[i].hash = cls[k].hash

\* Answer k is the answer to class k of the stream, which repeats the block number
\* and the hash of an earlier class that was accepted for a pair delivered once.
SecondDelivery(cls, delivered, answers, k) ==
  /\ answers[k] # UpstreamError
  /\ \E i \in 1..(k - 1) :
       /\ SameClass(cls, i, k)
       /\ answers[i].tag = "Ok"
       /\ TimesDeclared(delivered, cls[i].block_number, cls[i].hash) = 1

\* A pair (block number, class hash) is accepted no more often than the
\* expectation source has delivered it, so the classes accepted are never more
\* than the identifiers delivered.
AcceptedAsDelivered(delivered, answers) ==
  /\ \A b \in Blocks, h \in Hashes :
       TimesOk(answers, b, h) <= TimesDeclared(delivered, b, h)
  /\ Len(SelectSeq(answers, LAMBDA x : x.tag = "Ok")) <= Identifiers(delivered)

AsStageResult(item) ==
  IF item.tag = "Ok"
  THEN [tag |-> "Ok", err |-> "", block_number |-> item.block_number, hash |-> item.hash]
  ELSE StageErr(item.err)

\* The items verify_declared_at emitted for classes: its output without the
\* error of the peer stream, which never reaches the stage.
ClassItems(r) == SelectSeq(out[r], LAMBDA x : x # UpstreamError)

\* C25: given the same expectation sequence and the same classes, the k-th call of
\* VerifyDeclaredAt::map returns Ok exactly when verify_declared_at emits the
\* k-th class as Ok, and UnexpectedClass exactly when verify_declared_at emits
\* UnexpectedClass for it; the stage answers one class more than the stream
\* function only when its channel is exhausted with the current set empty, with
\* the error of the failed receive, where the stream function has returned
\* without an error item.
C25_FormsAgree ==
  \A r \in Runs :
    /\ \A k \in 1..Len(results[r]) :
         IF k <= Len(ClassItems(r))
         THEN results[r][k] = AsStageResult(ClassItems(r)[k])
         ELSE /\ k = Len(ClassItems(r)) + 1
              /\ results[r][k] = StageErr("Receiving expected declarations")
              /\ expectation_source[r] = <<>> /\ current[r].classes = {}
              /\ pc[r] = "done" /\ ErrOut(r) = <<>>
    /\ StageEnded(r) => Len(results[r]) >= Len(ClassItems(r))

\* Both forms accepted the first class and answered the second, held against the
\* next expected entry, with UnexpectedClass.
C25_Witness ==
  \E r \in Runs :
    /\ Len(inE[r]) = 2 /\ inE[r][1].classes # {} /\ inE[r][2].classes # {}
    /\ inE[r][1].block_number # inE[r][2].block_number
    /\ StageEnded(r)
    /\ Len(out[r]) = 2
    /\ out[r][1].tag = "Ok" /\ out[r][2].err = "UnexpectedClass"
    /\ declared_at[r] = inE[r][2].block_number
    /\ results[r] = <<AsStageResult(out[r][1]), StageErr("UnexpectedClass")>>

\* C26: every call of VerifyClassHashes::map made while the declarations stream
\* has an item takes exactly that one item, whether it returns the batch or a
\* mismatch, so that the next call is held against the next item; a call made
\* when the stream has ended takes nothing and returns an error, not the batch.
C26_OneItemPerCall ==
  [][/\ Len(declarations') = (IF declarations = <<>> THEN 0 ELSE Len(declarations) - 1)
     /\ \A k \in 1..Len(declarations') : declarations'[k] = declarations[k + 1]
     /\ hashes_result'.tag \in {"Ok", "Err"}
     /\ hashes_result'.tag = "Ok" =>
          (declarations # <<>> /\ hashes_result'.value = hashes_input')
     /\ hashes_result'.tag = "Err" => hashes_result'.value = <<>>
     /\ declarations = <<>> => hashes_result' = HashesErr("Getting declared classes")
    ]_vars

\* The first item of a stream of two was taken by a call that returned a
\* mismatch although its batch holds exactly the classes of the second item,
\* which is left for the next call.
C26_Witness ==
  /\ Len(declarations) = 1
  /\ hashes_input # <<>>
  /\ hashes_result = HashesErr("ClassDefinitionsDeclarationsMismatch")
  /\ ExactlyDeclared(declarations[1], hashes_input)

\* The input verify_declared_at has not consumed: the items of E and the items
\* of H, buffered or unread.
Unconsumed(r) ==
  Len(expected_declarations[r]) + Len(Flatten(classes[r])) + Len(dechunker[r])

\* How far the future is from its next consuming step or from its return.
Rank(r) ==
  CASE pc[r] = "send" -> 3
    [] pc[r] = "loop" -> 2
    [] pc[r] = "next_expected" -> 1
    [] OTHER -> 0
Measure(r) == 4 * Unconsumed(r) + Rank(r)

\* One step of run r: a step into the inner loop has consumed an item of E, a step
\* that leaves the inner loop with an item to send has consumed an item of H, and
\* every step brings the future nearer to its next consuming step or to its
\* return.
ConsumesInput(r) ==
  /\ (pc[r] = "next_expected" /\ pc'[r] = "loop") => Unconsumed(r)' = Unconsumed(r) - 1
  /\ (pc[r] = "loop" /\ pc'[r] = "send") => Unconsumed(r)' = Unconsumed(r) - 1
  /\ <<expected_declarations[r], classes[r], dechunker[r], declared[r], pc[r], out[r]>>'
       # <<expected_declarations[r], classes[r], dechunker[r], declared[r], pc[r], out[r]>>
     => Measure(r)' < Measure(r)

\* C27: on finite E and H with no empty chunk and a consumer that keeps receiving,
\* verify_declared_at eventually returns, closing its output stream, and never
\* panics; every pass through one of its loops consumes an item of E or a class
\* of H.
C27_Termination ==
  /\ <>[](\A r \in Runs : pc[r] = "done")
  /\ [][\A r \in Runs : ConsumesInput(r)]_vars

\* The function has returned after it consumed two items of E and two classes of
\* H and sent both classes.
C27_Witness ==
  \E r \in Runs :
    /\ pc[r] = "done"
    /\ Len(inE[r]) = 2 /\ Len(AllClasses(inH[r])) = 2
    /\ Unconsumed(r) = 0
    /\ Len(OkOut(r)) = 2

\* C28: a call of Store::map that returns Ok returns the block number of its
\* input and has committed the write of its class, and of nothing else, to the
\* database; a call that fails leaves the database as it found it, with the
\* classes stored by earlier calls and without a write for its own class.
C28_StoreCommitsEachClass ==
  [][store_result'.tag \in {"Ok", "Err"} =>
       /\ store_result'.tag = "Ok" =>
            /\ store_result'.block_number = store_input'.block_number
            /\ database' = WrittenClass(database, store_input')
            /\ database'.rows[store_input'.hash].variant = store_input'.variant
            /\ database'.rows[store_input'.hash].definition = store_input'.definition
       /\ store_result'.tag = "Err" => database' = database
    ]_vars

\* A call on a Cairo class has failed: its class is not in the database, and the
\* Sierra class stored before it still is.
C28_Witness ==
  /\ store_result.tag = "Err"
  /\ store_input.variant = "Cairo"
  /\ database.rows[store_input.hash] = NoRow
  /\ \E h \in Hashes :
       /\ h # store_input.hash
       /\ database.rows[h].variant = "Sierra"
       /\ database.rows[h].casm_definition = "k"

\* The first block of the range without a header, 0 when every header exists.
FirstMissingHeader ==
  IF AllHeadersExist THEN 0
  ELSE CHOOSE b \in inStart..stop :
         ~headers[b].found /\ \A a \in inStart..(b - 1) : headers[a].found

\* The header of block b is missing: the task does not go past b and does not
\* return normally, the channel never holds an item of block b or of a later
\* block, and the stage has not accepted a class of block b or of a later block.
NothingFromMissingHeader ==
  LET b == FirstMissingHeader
  IN b # 0 =>
       /\ start["spawn"] <= b
       /\ task["spawn"] # "returned"
       /\ \A i \in 1..Len(channel["spawn"]) : channel["spawn"][i].block_number < b
       /\ \A i \in 1..Len(results[1]) :
            results[1][i].tag = "Ok" => results[1][i].block_number < b

\* A call of the stage made when its current set is empty, the channel is empty
\* and the task has ended returns the error of the failed receive.
ErrorOnClosedChannel ==
  (/\ current[1].classes = {}
   /\ InChannel = <<>>
   /\ ChannelClosed
   /\ <<results, current>>' # <<results, current>>)
  => results'[1] = <<StageErr("Receiving expected declarations")>>

\* The step the task takes at the first block without a header: it fails, which
\* drops tx, and sends nothing.
StopsAtMissingHeader ==
  (/\ FirstMissingHeader # 0
   /\ start["spawn"] = FirstMissingHeader
   /\ task["spawn"] = "running"
   /\ <<task, start, channel>>' # <<task, start, channel>>)
  => (task'["spawn"] = "failed" /\ channel' = channel)

\* C29: with spawn feeding VerifyDeclaredAt, when the header of block b is missing
\* the task stops at b and the channel closes without an item for b or a later
\* block; VerifyDeclaredAt::map never returns Ok for a class of block b or later,
\* and answers a class that arrives when its current set is empty and the channel
\* is closed and empty with an error.
C29_MissingHeaderStopsFeed ==
  /\ []NothingFromMissingHeader
  /\ [][StopsAtMissingHeader /\ ErrorOnClosedChannel]_vars

\* The header of block 2 is missing: the task has failed there after it sent the
\* item of block 1, the stage has accepted the class of block 1, and a further
\* class was answered with the error of the failed receive.
C29_Witness ==
  /\ inStart = 1 /\ stop >= 2
  /\ FirstMissingHeader = 2
  /\ task["spawn"] = "failed"
  /\ Len(channel["spawn"]) = 1
  /\ current[1] = ExpectedDeclarations(1, {})
  /\ results[1] = <<StageErr("Receiving expected declarations")>>


\* ---------------------------------------------------------------------------
\* C30
\* ---------------------------------------------------------------------------

\* The errors persist can return before it looks at the batch: the storage
\* refused the connection or the transaction.
StorageRefused ==
  {"Creating database connection", "Creating database transaction"}

\* C30: persist called with an empty batch never reaches the loop or the commit
\* and never answers Ok: it returns an error, which is "No class definitions to
\* persist" unless the storage refused the connection or the transaction, and
\* the committed content of the database is the one it was called on at every
\* step, with no transaction left open once it has returned.
C30_EmptyBatchIsError ==
  inClasses = <<>> =>
    /\ persist_pc \in {"call", "returned"}
    /\ database = inDatabase
    /\ persist_result.tag # "Ok"
    /\ persist_pc = "returned" =>
         /\ persist_result.tag = "Err"
         /\ persist_result.at = 0
         /\ persist_result.error \notin StorageRefused
              => persist_result.error = "No class definitions to persist"
         /\ transaction = NoTransaction

\* persist has returned "No class definitions to persist" for an empty batch, on
\* a database that already held a class.
C30_Witness ==
  /\ inClasses = <<>>
  /\ persist_pc = "returned"
  /\ persist_result = PersistErr("No class definitions to persist", 0)
  /\ database = inDatabase
  /\ \E h \in DOMAIN inDatabase.rows : inDatabase.rows[h] # NoRow


\* ---------------------------------------------------------------------------
\* C31
\* ---------------------------------------------------------------------------

StarknetPrefix == <<"s", "t", "a", "r", "k", "n", "e", "t", "_">>
HasPrefix(text, prefix) ==
  Len(text) >= Len(prefix) /\ SubSeq(text, 1, Len(prefix)) = prefix
WithoutPrefix(text, prefix) == SubSeq(text, Len(prefix) + 1, Len(text))

\* The snake_case form of a camelCase name: every capital becomes an underscore
\* and its small letter.
ToLower(c) ==
  IF IsUpper(c) THEN LowerCase[CHOOSE i \in DOMAIN UpperCase : UpperCase[i] = c]
  ELSE c
RECURSIVE SnakeCaseFrom(_, _)
SnakeCaseFrom(name, i) ==
  IF i > Len(name) THEN <<>>
  ELSE (IF IsUpper(name[i]) THEN <<"_", ToLower(name[i])>> ELSE <<name[i]>>)
       \o SnakeCaseFrom(name, i + 1)
SnakeCase(name) == SnakeCaseFrom(name, 1)

\* A starknet_<camelCaseName> route bound to a function of crate::method is
\* bound to the function named by the snake_case form of <camelCaseName>.
FollowsNaming(route) ==
  (HasPrefix(route.method_name, StarknetPrefix) /\ route.method.path = "crate::method")
    => route.method.name = SnakeCase(WithoutPrefix(route.method_name, StarknetPrefix))

\* The positions in the chain of the routes registered so far that are bound
\* against the naming rule, and the pairs of positions that share a method.
Misbound == {i \in 1..Len(methods) : ~FollowsNaming(methods[i])}
SharedMethods ==
  {pair \in (1..Len(methods)) \X (1..Len(methods)) :
     pair[1] < pair[2] /\ methods[pair[1]].method = methods[pair[2]].method}

\* C31: in the v0.8 router every method name is registered exactly once, every
\* starknet_<camelCaseName> route bound to a function of crate::method is bound
\* to the function whose name is the snake_case form of <camelCaseName>, and no
\* two distinct method names share a handler: two requests for distinct
\* registered names are never served by the same method.
C31_RoutesByName ==
  /\ \A i, j \in 1..Len(methods) :
       methods[i].method_name = methods[j].method_name => i = j
  /\ Misbound = {}
  /\ SharedMethods = {}
  /\ (/\ Len(served) = 2
      /\ served[1].method_name # served[2].method_name
      /\ served[1].method # MethodNotFound)
     => served[1].method # served[2].method

\* What the chain does instead: no method name is registered twice, and the one
\* route bound against the naming rule is the ninth, starknet_estimateMessageFee,
\* which shares the method of the eighth, starknet_estimateFee.
RoutesByNameButEstimateMessageFee ==
  /\ \A i, j \in 1..Len(methods) :
       methods[i].method_name = methods[j].method_name => i = j
  /\ Misbound \subseteq {9}
  /\ SharedMethods \subseteq {<<8, 9>>}
  /\ Len(methods) = Len(register_routes) => (Misbound = {9} /\ SharedMethods = {<<8, 9>>})

====
